---------------------------- MODULE Spec2Model ----------------------------
(***************************************************************************)
(* State-machine model of the erc20-spider monitoring bot:                 *)
(*   PoolTracker           src/src/core/pool_tracker.py                    *)
(*   EventDecoder          src/src/core/event_decoder.py                   *)
(*   TransactionClassifier src/src/core/transaction_classifier.py          *)
(*   SpiderBot             src/src/core/eth_spider.py                      *)
(*                                                                         *)
(* Representation.                                                         *)
(*  - An address string is a pair <<n, c>>: n is the 160-bit number the    *)
(*    hex digits denote and c its letter case ("l" lowercase, "c" EIP-55   *)
(*    checksum case, "u" uppercase).  str.lower() and to_checksum_address  *)
(*    change only c.                                                       *)
(*  - A 32-byte word of topics/data is a natural number below WordBase.    *)
(*  - A token amount is kept as the raw integer; the comparison            *)
(*    raw / 10**decimals < T of the source is raw < T * TokenScale.        *)
(*  - created_at (datetime.now()) of a pool record is not modelled.        *)
(***************************************************************************)
EXTENDS Integers, Sequences, FiniteSets, TLC

\* ------------------------------------------------------------------ bounds
\* connect attempts made by one run of _subscription_loop
MaxConnects == 2
\* inbound frames delivered over the whole run
MaxFrames == 2
\* inbound frames delivered on a single undisturbed connection
MaxPoolFrames == 4
\* raw units per whole token (stands for 10 ** CONTRACT_DECIMALS)
TokenScale == 2

\* --------------------------------------------------- configuration values
MIN_TOKENS_THRESHOLD == 7500000
MIN_LIQUIDITY_THRESHOLD == 100000
\* width of a packed word (2**256 / 2**255 in the decoder), at model scale
WordBits == 30
WordBase == 2 ^ WordBits
\* number of distinct 20-byte values (2**160), at model scale
AddrSpace == 16

None == "None"

\* ---------------------------------------------------------------- addresses
Lower(a) == <<a[1], "l">>

ToChecksum(n) == <<n, "c">>

\* "0x" + word[-40:] : the low 20 bytes of a 32-byte word
Low20(w) == w % AddrSpace

ERC20_CONTRACT_ADDRESS == <<1, "c">>
UNISWAP_V2_FACTORY == <<2, "c">>
UNISWAP_V3_FACTORY == <<3, "c">>
ZERO_ADDRESS == <<0, "l">>
BURN_ADDRESS == <<4, "c">>
DEX_ROUTERS == {<<5, "l">>}
CEX_ADDRESSES == {<<6, "l">>}

\* self.contract_address of SpiderBot and of TransactionClassifier
contract_address == Lower(ERC20_CONTRACT_ADDRESS)

\* event signature table (topics[0] values)
EVENT_SIGNATURES == [Transfer |-> "0xddf2", PairCreated |-> "0x0d36", Mint |-> "0x4c20", Swap |-> "0xd78a", Burn |-> "0xdccd", Sync |-> "0x1c41", PoolCreated |-> "0x783c", MintV3 |-> "0x7a53", SwapV3 |-> "0xc420"]

\* pools              PoolTracker.pools
\* sub_id             SpiderBot.sub_id
\* websocket          SpiderBot.websocket: 0 for None, else the number of the
\*                    connection whose socket it holds
\* should_stop        SpiderBot.should_stop
\* pc                 position of _subscription_loop
\* wsOpen             whether the transport of the current socket is still up
\* sent               the eth_subscribe requests handed to websocket.send, in
\*                    order: id, socket, addresses, and whether send returned
\*                    (ok) or raised
\* connects           connect attempts made so far
\* inbound            frames the transport has yet to deliver
\* lastFrame          <<log>> for the log handled by the last step, else <<>>
\* calls              collaborator operations invoked by the last step, in order
\* is_first           is_first_swap passed to send_swap_notification by the
\*                    last step ("True"/"False"), None when it sent none
\* tx_type            category passed to send_transfer_notification by the
\*                    last step, None when it sent none
\* status_text        status_text passed to send_liquidity_added_notification
\*                    by the last step, None when it sent none
\* ended              how the latest connection attempt ended
\* slept              whether asyncio.sleep(WS_RECONNECT_DELAY) ran since then
\* streamErrors       Streaming connections ended by an error or remote close
\* errorNotifications calls of TelegramBot.send_error_notification
\* firstSwapTrue      per pool key, how often mark_first_swap returned True
\* notify             how the awaited send_* call of the last step ended:
\*                    "sent", "failed" (send_message gave up and returned
\*                    False), "raised"; "none" when the step made no such call
\* caught             the except clause of _process_messages that the last
\*                    step ran: "json" (JSONDecodeError), "error" (Exception),
\*                    else "none"
\* read               frames taken off the socket by async for so far
\* handled            frames whose loop iteration is over
\* probe              a pure operation applied on its own: its name, its
\*                    arguments and its result
\* telegram           one call of TelegramBot.send_message: where it stands,
\*                    the for loop's attempt, what each POST ended in, the
\*                    sleep that followed each, and the value returned
VARIABLES pools, sub_id, websocket, should_stop, pc, wsOpen, sent, connects, inbound, lastFrame, calls, is_first, tx_type, status_text, ended, slept, streamErrors, errorNotifications, firstSwapTrue, notify, caught, read, handled, probe, telegram

vars == <<pools, sub_id, websocket, should_stop, pc, wsOpen, sent, connects, inbound, lastFrame, calls, is_first, tx_type, status_text, ended, slept, streamErrors, errorNotifications, firstSwapTrue, notify, caught, read, handled, probe, telegram>>

\* ------------------------------------------------------------- PoolTracker
\* self.pools is an insertion-ordered dict: a sequence of entries, each
\* carrying its key; a key occurs at most once.
KeyIndex(ps, key) ==
    IF \E i \in 1..Len(ps) : ps[i].key = key
    THEN CHOOSE i \in 1..Len(ps) : ps[i].key = key
    ELSE 0

HasKey(ps, key) == KeyIndex(ps, key) # 0

\* the dict literal of add_pool
NewPool(pool_address, token0, token1, version) ==
    [key |-> Lower(pool_address), address |-> pool_address,
     token0 |-> token0, token1 |-> token1, version |-> version,
     has_liquidity |-> FALSE, first_mint |-> None, first_swap |-> None]

\* self.pools = {key: {...}}: the dict made anew around the one record
add_pool_alone(ps, pool_address, token0, token1, version) ==
    <<NewPool(pool_address, token0, token1, version)>>

\* self.pools[key] = {...}: replaces the value of an existing key in place,
\* appends a new key
add_pool(ps, pool_address, token0, token1, version) ==
    IF HasKey(ps, Lower(pool_address))
    THEN [ps EXCEPT ![KeyIndex(ps, Lower(pool_address))] = NewPool(pool_address, token0, token1, version)]
    ELSE Append(ps, NewPool(pool_address, token0, token1, version))

\* self.pools.get(pool_address): the key looked up as the address is written
get_pool_info_exact(ps, pool_address) ==
    IF HasKey(ps, pool_address)
    THEN <<ps[KeyIndex(ps, pool_address)]>>
    ELSE <<>>

\* self.pools.get(pool_address.lower()): <<>> for None, else <<entry>>
get_pool_info(ps, pool_address) ==
    IF HasKey(ps, Lower(pool_address))
    THEN <<ps[KeyIndex(ps, Lower(pool_address))]>>
    ELSE <<>>

\* not x, for x a transaction hash or None
Falsy(x) == x = None

\* a record made for an address that has none
mark_liquidity_added_upsert(ps, pool_address, tx_hash) ==
    IF get_pool_info(ps, pool_address) # <<>>
    THEN [ps EXCEPT ![KeyIndex(ps, Lower(pool_address))] =
             [@ EXCEPT !.has_liquidity = TRUE,
                       !.first_mint = IF Falsy(@) THEN tx_hash ELSE @]]
    ELSE Append(ps, [NewPool(pool_address, None, None, None) EXCEPT !.has_liquidity = TRUE, !.first_mint = tx_hash])

\* has_liquidity set, first_mint left alone
mark_liquidity_added_flag_only(ps, pool_address, tx_hash) ==
    IF get_pool_info(ps, pool_address) # <<>>
    THEN [ps EXCEPT ![KeyIndex(ps, Lower(pool_address))].has_liquidity = TRUE]
    ELSE ps

mark_liquidity_added(ps, pool_address, tx_hash) ==
    IF get_pool_info(ps, pool_address) # <<>>
    THEN [ps EXCEPT ![KeyIndex(ps, Lower(pool_address))] =
             [@ EXCEPT !.has_liquidity = TRUE,
                       !.first_mint = IF Falsy(@) THEN tx_hash ELSE @]]
    ELSE ps

\* the value returned by mark_first_swap
mark_first_swap_ret(ps, pool_address) ==
    /\ get_pool_info(ps, pool_address) # <<>>
    /\ Falsy(get_pool_info(ps, pool_address)[1].first_swap)

\* the registry after mark_first_swap
mark_first_swap(ps, pool_address, tx_hash) ==
    IF mark_first_swap_ret(ps, pool_address)
    THEN [ps EXCEPT ![KeyIndex(ps, Lower(pool_address))].first_swap = tx_hash]
    ELSE ps

\* ------------------------------------------------------------ EventDecoder
\* A log is [address, topics, data, transactionHash]; topics[1] is the
\* signature string (topics[0] of the source), the other topics and the
\* data are 32-byte words.  len(data) of the source is 2 + 64 * Len(data),
\* and 64 * Len(data) once the "0x" is cut off.
RECURSIVE WordsToInt(_)
\* int(data[2:], 16) over the whole data string
WordsToInt(ws) ==
    IF ws = <<>>
    THEN 0
    ELSE WordsToInt(SubSeq(ws, 1, Len(ws) - 1)) * WordBase + ws[Len(ws)]

\* A topic or data word that is a string but not one of hexadecimal digits
\* (or too short to hold an address): int(..., 16) and to_checksum_address
\* raise ValueError on it.
NotHex == 0 - 1

\* A topic that is not a string, or (as the only element of data) a data
\* value that is not a string: slicing it or taking its len raises TypeError.
NotStr == 0 - 2

\* return None
Failed == [ok |-> FALSE, raised |-> FALSE]

\* an exception that except (ValueError, IndexError) does not catch leaves
\* the decoder
Raised == [ok |-> FALSE, raised |-> TRUE]

\* topics[1][-40:] and topics[2][-40:] can be taken
TopicsAreStr(log) == log.topics[2] # NotStr /\ log.topics[3] # NotStr

\* to_checksum_address accepts both sliced topics
TopicsAreHex(log) == log.topics[2] >= 0 /\ log.topics[3] >= 0

\* log.get("data", ...) is a string
DataIsStr(log) == \A i \in DOMAIN log.data : log.data[i] # NotStr

\* int(..., 16) accepts the data words numbered in ws
WordsAreHex(log, ws) == \A i \in ws : log.data[i] >= 0

decode_transfer(log) ==
    IF Len(log.topics) < 3 THEN Failed
    ELSE IF ~TopicsAreStr(log) THEN Raised
    ELSE IF ~DataIsStr(log) THEN Raised
    ELSE IF 2 + 64 * Len(log.data) < 66 THEN Failed
    ELSE IF ~WordsAreHex(log, DOMAIN log.data) THEN Failed
    ELSE IF ~TopicsAreHex(log) THEN Failed
    ELSE [ok |-> TRUE,
          from |-> ToChecksum(Low20(log.topics[2])),
          to |-> ToChecksum(Low20(log.topics[3])),
          amount |-> WordsToInt(log.data)]

decode_pair_created(log) ==
    IF Len(log.topics) < 3 THEN Failed
    ELSE IF ~TopicsAreStr(log) THEN Raised
    ELSE IF ~DataIsStr(log) THEN Raised
    ELSE IF 2 + 64 * Len(log.data) < 42 THEN Failed
    ELSE IF ~TopicsAreHex(log) THEN Failed
    ELSE IF ~WordsAreHex(log, {Len(log.data)}) THEN Failed
    ELSE [ok |-> TRUE,
          token0 |-> ToChecksum(Low20(log.topics[2])),
          token1 |-> ToChecksum(Low20(log.topics[3])),
          pair |-> ToChecksum(Low20(log.data[Len(log.data)]))]

decode_mint_event(log) ==
    IF ~DataIsStr(log) THEN Raised
    ELSE IF 64 * Len(log.data) < 128 THEN Failed
    ELSE IF ~WordsAreHex(log, {1, 2}) THEN Failed
    ELSE [ok |-> TRUE, amount0 |-> log.data[1], amount1 |-> log.data[2]]

decode_mint_v3_event(log) ==
    IF Len(log.topics) < 4 THEN Failed
    ELSE IF ~DataIsStr(log) THEN Raised
    ELSE IF 64 * Len(log.data) < 256 THEN Failed
    ELSE IF ~WordsAreHex(log, {3, 4}) THEN Failed
    ELSE [ok |-> TRUE, amount0 |-> log.data[3], amount1 |-> log.data[4]]

decode_pool_created_v3(log) ==
    IF Len(log.topics) < 3 THEN Failed
    ELSE IF ~TopicsAreStr(log) THEN Raised
    ELSE IF ~DataIsStr(log) THEN Raised
    ELSE IF 64 * Len(log.data) < 128 THEN Failed
    ELSE IF ~WordsAreHex(log, {1}) THEN Failed
    ELSE IF ~TopicsAreHex(log) THEN Failed
    ELSE IF ~WordsAreHex(log, {2}) THEN Failed
    ELSE [ok |-> TRUE,
          token0 |-> ToChecksum(Low20(log.topics[2])),
          token1 |-> ToChecksum(Low20(log.topics[3])),
          pool |-> ToChecksum(Low20(log.data[2])),
          fee |-> log.data[1]]

decode_swap_v2_event(log) ==
    IF Len(log.topics) < 3 THEN Failed
    ELSE IF ~TopicsAreStr(log) THEN Raised
    ELSE IF ~DataIsStr(log) THEN Raised
    ELSE IF 64 * Len(log.data) < 256 THEN Failed
    ELSE IF ~WordsAreHex(log, {1, 2, 3, 4}) THEN Failed
    ELSE IF ~TopicsAreHex(log) THEN Failed
    ELSE [ok |-> TRUE,
          sender |-> ToChecksum(Low20(log.topics[2])),
          to |-> ToChecksum(Low20(log.topics[3])),
          amount0_in |-> log.data[1], amount1_in |-> log.data[2],
          amount0_out |-> log.data[3], amount1_out |-> log.data[4]]

Abs(x) == IF x < 0 THEN 0 - x ELSE x

\* the raw word taken as it is
Signed_unsigned(raw) == raw

\* raw if raw < 2**255 else raw - 2**256
Signed(raw) == IF raw < WordBase \div 2 THEN raw ELSE raw - WordBase

decode_swap_v3_event(log) ==
    IF Len(log.topics) < 3 THEN Failed
    ELSE IF ~TopicsAreStr(log) THEN Raised
    ELSE IF ~DataIsStr(log) THEN Raised
    ELSE IF 64 * Len(log.data) < 256 THEN Failed
    ELSE IF ~WordsAreHex(log, {1, 2, 3, 4}) THEN Failed
    ELSE IF ~TopicsAreHex(log) THEN Failed
    ELSE [ok |-> TRUE,
          sender |-> ToChecksum(Low20(log.topics[2])),
          recipient |-> ToChecksum(Low20(log.topics[3])),
          amount0 |-> Abs(Signed(log.data[1])), amount1 |-> Abs(Signed(log.data[2])),
          sqrt_price_x96 |-> log.data[3], liquidity |-> log.data[4]]

decode_burn_event(log) ==
    IF ~DataIsStr(log) THEN Raised
    ELSE IF 64 * Len(log.data) < 128 THEN Failed
    ELSE IF ~WordsAreHex(log, {1, 2}) THEN Failed
    ELSE [ok |-> TRUE, amount0 |-> log.data[1], amount1 |-> log.data[2]]

\* --------------------------------------------------- TransactionClassifier
\* the burn rule tried before the mint rule
classify_transaction_type_burn_first(from_addr, to_addr, pool_info) ==
    IF Lower(to_addr) \in {Lower(ZERO_ADDRESS), Lower(BURN_ADDRESS)} THEN "TOKEN BURN"
    ELSE IF Lower(from_addr) = Lower(ZERO_ADDRESS) THEN "TOKEN MINT"
    ELSE IF pool_info # <<>> THEN (IF pool_info[1].has_liquidity THEN "POOL ACTIVITY" ELSE "POOL SETUP")
    ELSE IF Lower(from_addr) \in DEX_ROUTERS \/ Lower(to_addr) \in DEX_ROUTERS THEN "DEX SWAP"
    ELSE IF Lower(from_addr) \in CEX_ADDRESSES THEN "CEX WITHDRAW"
    ELSE IF Lower(to_addr) \in CEX_ADDRESSES THEN "CEX DEPOSIT"
    ELSE "TRANSFER"

\* An Optional[Dict] pool_info is <<>> for None and <<entry>> otherwise.
classify_transaction_type(from_addr, to_addr, pool_info) ==
    IF Lower(from_addr) = Lower(ZERO_ADDRESS) THEN "TOKEN MINT"
    ELSE IF Lower(to_addr) \in {Lower(ZERO_ADDRESS), Lower(BURN_ADDRESS)} THEN "TOKEN BURN"
    ELSE IF pool_info # <<>> THEN (IF pool_info[1].has_liquidity THEN "POOL ACTIVITY" ELSE "POOL SETUP")
    ELSE IF Lower(from_addr) \in DEX_ROUTERS \/ Lower(to_addr) \in DEX_ROUTERS THEN "DEX SWAP"
    ELSE IF Lower(from_addr) \in CEX_ADDRESSES THEN "CEX WITHDRAW"
    ELSE IF Lower(to_addr) \in CEX_ADDRESSES THEN "CEX DEPOSIT"
    ELSE "TRANSFER"

\* the stored address compared as it is written
find_related_pool_exact(from_addr, to_addr, ps) ==
    LET hits == {i \in 1..Len(ps) : ps[i].address \in {from_addr, to_addr}}
    IN IF hits = {} THEN <<>> ELSE <<ps[CHOOSE i \in hits : \A j \in hits : i <= j]>>

\* the first entry, in dict order, whose address is from_addr or to_addr
find_related_pool(from_addr, to_addr, ps) ==
    LET hits == {i \in 1..Len(ps) : Lower(ps[i].address) \in {Lower(from_addr), Lower(to_addr)}}
    IN IF hits = {} THEN <<>> ELSE <<ps[CHOOSE i \in hits : \A j \in hits : i <= j]>>

\* token_amount > MIN_LIQUIDITY_THRESHOLD
assess_liquidity_quality_strict(token_amount) ==
    IF token_amount > MIN_LIQUIDITY_THRESHOLD * TokenScale
    THEN <<"green", "Substantial", "Trading viable">>
    ELSE <<"yellow", "Minimal", "Trading possible but limited">>

\* the tuple (status emoji, status text, tradeable text); the emoji are
\* written as the names of their colours
assess_liquidity_quality(token_amount) ==
    IF token_amount >= MIN_LIQUIDITY_THRESHOLD * TokenScale
    THEN <<"green", "Substantial", "Trading viable">>
    ELSE <<"yellow", "Minimal", "Trading possible but limited">>

\* both tokens asked to be the monitored one
is_contract_involved_both(token0, token1) ==
    Lower(token0) = contract_address /\ Lower(token1) = contract_address

is_contract_involved(token0, token1) ==
    Lower(token0) = contract_address \/ Lower(token1) = contract_address

\* ------------------------------------------------ TelegramBot: constants
TELEGRAM_RETRY_DELAY == 2
TELEGRAM_MAX_RETRIES == 3
\* response.headers.get('Retry-After', 60)
RetryAfterDefault == 60

\* no call of send_message under way
NoSend == [pc |-> "idle", attempt |-> 0, posts |-> <<>>, sleeps |-> <<>>, returned |-> None]

\* ---------------------------------------------------------------- SpiderBot
AllKeys == {<<n, "l">> : n \in 0..(AddrSpace - 1)}

\* no pure operation applied on its own
NoProbe == [fn |-> "none", arg |-> <<>>, out |-> <<>>]

\* the state after SpiderBot.__init__, with n frames to come
Start(n) == /\ pools = <<>>
            /\ sub_id = 1
            /\ websocket = 0
            /\ should_stop = FALSE
            /\ pc = "loop"
            /\ wsOpen = FALSE
            /\ sent = <<>>
            /\ connects = 0
            /\ inbound = n
            /\ lastFrame = <<>>
            /\ calls = <<>>
            /\ is_first = None
            /\ tx_type = None
            /\ status_text = None
            /\ ended = "none"
            /\ slept = FALSE
            /\ streamErrors = 0
            /\ errorNotifications = 0
            /\ firstSwapTrue = [k \in AllKeys |-> 0]
            /\ notify = "none"
            /\ caught = "none"
            /\ read = 0
            /\ handled = 0
            /\ probe = NoProbe
            /\ telegram = NoSend

Init == Start(MaxFrames)

\* [addr.lower() for addr in addresses]
LowerAll(addresses) == [i \in DOMAIN addresses |-> Lower(addresses[i])]

\* the counter left as it is
NextSubId_kept(id) == id

\* self.sub_id += 1
NextSubId(id) == id + 1

\* _subscribe_to_addresses on the state s = [sub_id, sent, raised]; ok tells
\* whether websocket.send returns (TRUE) or raises (FALSE)
subscribe_to_addresses(s, addresses, ok) == IF addresses = <<>> THEN s ELSE [sub_id |-> NextSubId(s.sub_id), sent |-> Append(s.sent, [id |-> s.sub_id, conn |-> websocket, addresses |-> LowerAll(addresses), ok |-> ok]), raised |-> ~ok]

fixed_addresses == <<ERC20_CONTRACT_ADDRESS, UNISWAP_V2_FACTORY, UNISWAP_V3_FACTORY>>

\* the known pools left out of the resubscription
pool_addresses_none(ps) == <<>>

\* [pool["address"] for pool in self.pool_tracker.pools.values()]
pool_addresses(ps) == [i \in DOMAIN ps |-> ps[i].address]

\* the reconnect sleep taken whatever the stop flag says
Except_sleeps == /\ pc' = "sleep"
                 /\ ended' = "error"
                 /\ slept' = FALSE
                 /\ wsOpen' = FALSE

\* the loop given up on an error
Except_fatal == /\ pc' = "done"
                /\ ended' = "error"
                /\ slept' = FALSE
                /\ wsOpen' = FALSE

\* the except clause of _subscription_loop
Except == /\ pc' = IF should_stop THEN "loop" ELSE "sleep"
          /\ ended' = "error"
          /\ slept' = FALSE
          /\ wsOpen' = FALSE

NoCalls == /\ lastFrame' = <<>>
           /\ calls' = <<>>
           /\ is_first' = None
           /\ tx_type' = None
           /\ status_text' = None
           /\ notify' = "none"
           /\ UNCHANGED <<probe, telegram>>

\* a step of _subscription_loop outside async for: nothing is read and no
\* except clause of _process_messages runs
NoFrame == /\ NoCalls
           /\ caught' = "none"
           /\ UNCHANGED <<read, handled>>

\* while not self.should_stop.is_set(): the loop ends
LoopExit == /\ pc = "loop"
            /\ should_stop
            /\ pc' = "done"
            /\ NoFrame
            /\ UNCHANGED <<pools, sub_id, websocket, should_stop, wsOpen, sent, connects, inbound, ended, slept, streamErrors, errorNotifications, firstSwapTrue>>

\* async with connect(...) succeeds
Connect == /\ pc = "loop"
           /\ ~should_stop
           /\ connects < MaxConnects
           /\ connects' = connects + 1
           /\ websocket' = connects + 1
           /\ wsOpen' = TRUE
           /\ pc' = "setup"
           /\ NoFrame
           /\ UNCHANGED <<pools, sub_id, should_stop, sent, inbound, ended, slept, streamErrors, errorNotifications, firstSwapTrue>>

\* async with connect(...) raises
ConnectFail == /\ pc = "loop"
               /\ ~should_stop
               /\ connects < MaxConnects
               /\ connects' = connects + 1
               /\ Except
               /\ NoFrame
               /\ UNCHANGED <<pools, sub_id, websocket, should_stop, sent, inbound, streamErrors, errorNotifications, firstSwapTrue>>

\* the state after _setup_subscriptions when the sends succeed as ok1, ok2
SetupResult(ok1, ok2) == LET s1 == subscribe_to_addresses([sub_id |-> sub_id, sent |-> sent, raised |-> FALSE], fixed_addresses, ok1) IN IF s1.raised THEN s1 ELSE IF pool_addresses(pools) # <<>> THEN subscribe_to_addresses(s1, pool_addresses(pools), ok2) ELSE s1

\* _process_messages entered without the subscription requests being sent
SetupSubscriptions_skipped == /\ pc = "setup"
                              /\ pc' = "streaming"
                              /\ NoFrame
                              /\ UNCHANGED <<pools, sub_id, sent, websocket, should_stop, wsOpen, connects, inbound, ended, slept, streamErrors, errorNotifications, firstSwapTrue>>

\* _setup_subscriptions returns
SetupSubscriptions == /\ pc = "setup"
                      /\ sub_id' = SetupResult(TRUE, TRUE).sub_id
                      /\ sent' = SetupResult(TRUE, TRUE).sent
                      /\ pc' = "streaming"
                      /\ NoFrame
                      /\ UNCHANGED <<pools, websocket, should_stop, wsOpen, connects, inbound, ended, slept, streamErrors, errorNotifications, firstSwapTrue>>

\* _setup_subscriptions raises out of websocket.send
SetupFail == /\ pc = "setup"
             /\ \E ok1, ok2 \in BOOLEAN : /\ SetupResult(ok1, ok2).raised
                                          /\ sub_id' = SetupResult(ok1, ok2).sub_id
                                          /\ sent' = SetupResult(ok1, ok2).sent
             /\ Except
             /\ NoFrame
             /\ UNCHANGED <<pools, websocket, should_stop, connects, inbound, streamErrors, errorNotifications, firstSwapTrue>>

\* asyncio.sleep(WS_RECONNECT_DELAY) returns
Sleep == /\ pc = "sleep"
         /\ pc' = "loop"
         /\ slept' = TRUE
         /\ NoFrame
         /\ UNCHANGED <<pools, sub_id, websocket, should_stop, wsOpen, sent, connects, inbound, ended, streamErrors, errorNotifications, firstSwapTrue>>

\* SpiderBot.stop, run by the signal handler's task
Stop == /\ pc # "done"
        /\ ~should_stop
        /\ should_stop' = TRUE
        /\ NoFrame
        /\ UNCHANGED <<pools, sub_id, websocket, pc, wsOpen, sent, connects, inbound, ended, slept, streamErrors, errorNotifications, firstSwapTrue>>

\* async for message in websocket: the remote side closes normally and the
\* iterator finishes; _process_messages and the async with block return
StreamClosed == /\ pc = "streaming"
                /\ pc' = "loop"
                /\ ended' = "closed"
                /\ slept' = FALSE
                /\ wsOpen' = FALSE
                /\ streamErrors' = streamErrors + 1
                /\ NoFrame
                /\ UNCHANGED <<pools, sub_id, websocket, should_stop, sent, connects, inbound, errorNotifications, firstSwapTrue>>

\* async for message in websocket: the iterator raises ConnectionClosedError
StreamError == /\ pc = "streaming"
               /\ Except
               /\ streamErrors' = streamErrors + 1
               /\ NoFrame
               /\ UNCHANGED <<pools, sub_id, websocket, should_stop, sent, connects, inbound, errorNotifications, firstSwapTrue>>

\* a frame arrives with should_stop set: break
FrameAfterStop == /\ pc = "streaming"
                  /\ wsOpen
                  /\ should_stop
                  /\ pc' = "loop"
                  /\ ended' = "stopped"
                  /\ slept' = FALSE
                  /\ wsOpen' = FALSE
                  /\ NoCalls
                  /\ caught' = "none"
                  /\ read' = read + 1
                  /\ handled' = handled + 1
                  /\ UNCHANGED <<pools, sub_id, websocket, should_stop, sent, connects, inbound, streamErrors, errorNotifications, firstSwapTrue>>

\* ----------------------------------------------------- SpiderBot: handlers
\* amount <= MIN_TOKENS_THRESHOLD
BelowThreshold_inclusive(raw) == raw <= MIN_TOKENS_THRESHOLD * TokenScale

\* amount < MIN_TOKENS_THRESHOLD, for amount = raw / 10 ** decimals
BelowThreshold(raw) == raw < MIN_TOKENS_THRESHOLD * TokenScale

\* amount0 if pool_info["token0"].lower() == self.contract_address else amount1
TokenSide(pool_info, amount0, amount1) == IF Lower(pool_info.token0) = contract_address THEN amount0 ELSE amount1

\* str.lower() of a topics[0] value
SigLower(signature) == IF signature = "0xDDF2" THEN "0xddf2" ELSE signature

\* the comparison made after lower-casing both sides
Matches_ignoring_case(signature, name) == SigLower(signature) = SigLower(EVENT_SIGNATURES[name])

\* EventSignatureValidator.is_*_event: signature == EVENT_SIGNATURES[name]
Matches(signature, name) == signature = EVENT_SIGNATURES[name]

\* the signature comparisons of _handle_event, in their order; "none" when
\* there is no topic or no comparison succeeds
Route(log) ==
    IF log.topics = <<>> THEN "none"
    ELSE IF Matches(log.topics[1], "Transfer") THEN "Transfer"
    ELSE IF Matches(log.topics[1], "PairCreated") THEN "PairCreated"
    ELSE IF Matches(log.topics[1], "PoolCreated") THEN "PoolCreated"
    ELSE IF Matches(log.topics[1], "Mint") THEN "Mint"
    ELSE IF Matches(log.topics[1], "MintV3") THEN "MintV3"
    ELSE IF Matches(log.topics[1], "Swap") THEN "Swap"
    ELSE IF Matches(log.topics[1], "SwapV3") THEN "SwapV3"
    ELSE IF Matches(log.topics[1], "Burn") THEN "Burn"
    ELSE IF Matches(log.topics[1], "Sync") THEN "Sync"
    ELSE "none"

\* how an awaited TelegramBot.send_* call can end
NotifyOutcomes == {"sent", "failed", "raised"}

\* the except clause that an exception leaving the awaited send_* call ends in
NotifyCaught(out) == IF out = "raised" THEN "error" ELSE "none"

\* what a handler that sends no subscription leaves behind: the registry
\* ps, the collaborator calls cs, the is_first_swap and tx_type it passed
\* on, the keys for which mark_first_swap returned True, how its send_*
\* call ended (one of outs) and the except clause of _process_messages that
\* an exception out of the handler (exc), or out of the send_* call, ended in
LeaveWith(ps, cs, first, ttype, text, trueKeys, outs, exc) ==
    /\ pools' = ps
    /\ calls' = cs
    /\ is_first' = first
    /\ tx_type' = ttype
    /\ status_text' = text
    /\ firstSwapTrue' = IF trueKeys = {} THEN firstSwapTrue ELSE [k \in AllKeys |-> IF k \in trueKeys THEN firstSwapTrue[k] + 1 ELSE firstSwapTrue[k]]
    /\ \E out \in outs : /\ notify' = out
                         /\ caught' = IF exc THEN "error" ELSE NotifyCaught(out)
    /\ UNCHANGED <<sub_id, sent, wsOpen, probe, telegram>>

\* the same for a handler that passes no status_text
Leave(ps, cs, first, ttype, trueKeys, outs, exc) == LeaveWith(ps, cs, first, ttype, None, trueKeys, outs, exc)

\* a handler whose last statement is the awaited send_* call, which ends
\* in one of the three ways
Effects(ps, cs, first, ttype, trueKeys) == Leave(ps, cs, first, ttype, trueKeys, NotifyOutcomes, FALSE)

\* a handler returns without having called a collaborator
Return == Leave(pools, <<>>, None, None, {}, {"none"}, FALSE)

\* an exception leaves the handler before it has called a collaborator
Raise == Leave(pools, <<>>, None, None, {}, {"none"}, TRUE)

\* if not decoded: return - or the decoder's exception leaves the handler
Bail(decoded) == IF decoded.raised THEN Raise ELSE Return

\* the pool that sends the tokens marked as having liquidity
handle_transfer_marking(log) ==
    IF Lower(log.address) # contract_address \/ ~decode_transfer(log).ok THEN Return
    ELSE Effects(mark_liquidity_added(pools, decode_transfer(log).from, log.transactionHash),
                 <<"find_related_pool", "classify_transaction_type", "send_transfer_notification">>,
                 None, "TRANSFER", {})

\* a Transfer handled whatever contract emitted it
handle_transfer_any_emitter(log) ==
    LET decoded == decode_transfer(log)
    IN IF ~decoded.ok THEN Bail(decoded)
       ELSE IF BelowThreshold(decoded.amount) THEN Return
       ELSE IF Lower(decoded.to) \in {Lower(ZERO_ADDRESS), Lower(BURN_ADDRESS)}
            THEN Effects(pools, <<"send_token_burn_notification">>, None, None, {})
       ELSE IF Lower(decoded.to) \in {Lower(router) : router \in DEX_ROUTERS}
            THEN Effects(pools, <<"send_swap_notification">>, "False", None, {})
       ELSE Effects(pools,
                    <<"find_related_pool", "classify_transaction_type", "send_transfer_notification">>,
                    None,
                    classify_transaction_type(decoded.from, decoded.to, find_related_pool(decoded.from, decoded.to, pools)),
                    {})

\* every Transfer handed to the classifier, whatever its to is
handle_transfer_classifying(log) ==
    IF Lower(log.address) # contract_address THEN Return
    ELSE LET decoded == decode_transfer(log)
         IN IF ~decoded.ok THEN Bail(decoded)
            ELSE IF BelowThreshold(decoded.amount) THEN Return
            ELSE Effects(pools,
                         <<"find_related_pool", "classify_transaction_type", "send_transfer_notification">>,
                         None,
                         classify_transaction_type(decoded.from, decoded.to, find_related_pool(decoded.from, decoded.to, pools)),
                         {})

handle_transfer(log) ==
    IF Lower(log.address) # contract_address THEN Return
    ELSE LET decoded == decode_transfer(log)
         IN IF ~decoded.ok THEN Bail(decoded)
            ELSE IF BelowThreshold(decoded.amount) THEN Return
            ELSE IF Lower(decoded.to) \in {Lower(ZERO_ADDRESS), Lower(BURN_ADDRESS)}
                 THEN Effects(pools, <<"send_token_burn_notification">>, None, None, {})
            ELSE IF Lower(decoded.to) \in {Lower(router) : router \in DEX_ROUTERS}
                 THEN Effects(pools, <<"send_swap_notification">>, "False", None, {})
            ELSE Effects(pools,
                         <<"find_related_pool", "classify_transaction_type", "send_transfer_notification">>,
                         None,
                         classify_transaction_type(decoded.from, decoded.to, find_related_pool(decoded.from, decoded.to, pools)),
                         {})

\* the pool added to the registry only once its subscription request went out
RegisterPool_subscribe_first(pool, token0, token1, version) ==
    IF ~is_contract_involved(token0, token1)
    THEN Leave(pools, <<"is_contract_involved">>, None, None, {}, {"none"}, FALSE)
    ELSE \E ok \in (IF websocket # 0 THEN BOOLEAN ELSE {TRUE}) :
         LET s0 == [sub_id |-> sub_id, sent |-> sent, raised |-> FALSE]
             s == IF websocket # 0 THEN subscribe_to_addresses(s0, <<pool>>, ok) ELSE s0
         IN /\ pools' = IF s.raised THEN pools ELSE add_pool(pools, pool, token0, token1, version)
            /\ sub_id' = s.sub_id
            /\ sent' = s.sent
            /\ wsOpen' = ~s.raised
            /\ calls' = IF s.raised
                        THEN <<"is_contract_involved", "send">>
                        ELSE <<"is_contract_involved", "send", "add_pool", "send_pool_created_notification">>
            /\ is_first' = None
            /\ tx_type' = None
            /\ status_text' = None
            /\ \E out \in (IF s.raised THEN {"none"} ELSE NotifyOutcomes) :
                   /\ notify' = out
                   /\ caught' = IF s.raised THEN "error" ELSE NotifyCaught(out)
            /\ UNCHANGED <<firstSwapTrue, probe, telegram>>

\* the common tail of _handle_pair_created and _handle_pool_created_v3;
\* websocket.send returns (ok) or raises, in which case the exception
\* leaves the handler and is caught in _process_messages
RegisterPool(pool, token0, token1, version) ==
    IF ~is_contract_involved(token0, token1)
    THEN Leave(pools, <<"is_contract_involved">>, None, None, {}, {"none"}, FALSE)
    ELSE \E ok \in (IF websocket # 0 THEN BOOLEAN ELSE {TRUE}) :
         LET s0 == [sub_id |-> sub_id, sent |-> sent, raised |-> FALSE]
             s == IF websocket # 0 THEN subscribe_to_addresses(s0, <<pool>>, ok) ELSE s0
         IN /\ pools' = add_pool(pools, pool, token0, token1, version)
            /\ sub_id' = s.sub_id
            /\ sent' = s.sent
            /\ wsOpen' = ~s.raised
            /\ calls' = IF s.raised
                        THEN <<"is_contract_involved", "add_pool", "send">>
                        ELSE <<"is_contract_involved", "add_pool", "send", "send_pool_created_notification">>
            /\ is_first' = None
            /\ tx_type' = None
            /\ status_text' = None
            /\ \E out \in (IF s.raised THEN {"none"} ELSE NotifyOutcomes) :
                   /\ notify' = out
                   /\ caught' = IF s.raised THEN "error" ELSE NotifyCaught(out)
            /\ UNCHANGED <<firstSwapTrue, probe, telegram>>

handle_pair_created(log) ==
    LET decoded == decode_pair_created(log)
    IN IF ~decoded.ok THEN Bail(decoded)
       ELSE RegisterPool(decoded.pair, decoded.token0, decoded.token1, "V2")

handle_pool_created_v3(log) ==
    LET decoded == decode_pool_created_v3(log)
    IN IF ~decoded.ok THEN Bail(decoded)
       ELSE RegisterPool(decoded.pool, decoded.token0, decoded.token1, "V3")

\* the tail of the mint handlers without the token threshold
AddLiquidity_unfiltered(log, pool_info, decoded) ==
    IF ~decoded.ok THEN Bail(decoded)
    ELSE LeaveWith(mark_liquidity_added(pools, Lower(log.address), log.transactionHash),
                   <<"mark_liquidity_added", "assess_liquidity_quality", "send_liquidity_added_notification">>,
                   None, None,
                   assess_liquidity_quality(TokenSide(pool_info, decoded.amount0, decoded.amount1))[2],
                   {}, NotifyOutcomes, FALSE)

\* the common tail of _handle_mint_v2 and _handle_mint_v3
AddLiquidity(log, pool_info, decoded) ==
    IF ~decoded.ok THEN Bail(decoded)
    ELSE IF BelowThreshold(TokenSide(pool_info, decoded.amount0, decoded.amount1)) THEN Return
    ELSE LeaveWith(mark_liquidity_added(pools, Lower(log.address), log.transactionHash),
                   <<"mark_liquidity_added", "assess_liquidity_quality", "send_liquidity_added_notification">>,
                   None, None,
                   assess_liquidity_quality(TokenSide(pool_info, decoded.amount0, decoded.amount1))[2],
                   {}, NotifyOutcomes, FALSE)

handle_mint_v2(log) ==
    LET pool_info == get_pool_info(pools, Lower(log.address))
    IN IF pool_info = <<>> THEN Return
       ELSE AddLiquidity(log, pool_info[1], decode_mint_event(log))

handle_mint_v3(log) ==
    LET pool_info == get_pool_info(pools, Lower(log.address))
    IN IF pool_info = <<>> THEN Return
       ELSE AddLiquidity(log, pool_info[1], decode_mint_v3_event(log))

\* a notified burn taking the pool's liquidity mark away
handle_burn_v2_clearing(log) ==
    LET pool_info == get_pool_info(pools, Lower(log.address))
        decoded == decode_burn_event(log)
    IN IF pool_info = <<>> THEN Return
       ELSE IF ~decoded.ok THEN Bail(decoded)
       ELSE IF BelowThreshold(TokenSide(pool_info[1], decoded.amount0, decoded.amount1)) THEN Return
       ELSE IF Len(log.topics) < 2 THEN Return
       ELSE Effects([i \in DOMAIN pools |-> IF pools[i].key = Lower(log.address) THEN [pools[i] EXCEPT !.has_liquidity = FALSE] ELSE pools[i]],
                    <<"send_burn_notification">>, None, None, {})

handle_burn_v2(log) ==
    LET pool_info == get_pool_info(pools, Lower(log.address))
        decoded == decode_burn_event(log)
    IN IF pool_info = <<>> THEN Return
       ELSE IF ~decoded.ok THEN Bail(decoded)
       ELSE IF BelowThreshold(TokenSide(pool_info[1], decoded.amount0, decoded.amount1)) THEN Return
       ELSE IF Len(log.topics) < 2 THEN Return
       ELSE Effects(pools, <<"send_burn_notification">>, None, None, {})

handle_sync_v2(log) == Return

\* the first-swap flag taken before the threshold is looked at
ReportSwap_marking_first(log, amount) ==
    IF BelowThreshold(Abs(amount))
    THEN Leave(mark_first_swap(pools, Lower(log.address), log.transactionHash), <<"mark_first_swap">>, None, None, {}, {"none"}, FALSE)
    ELSE Effects(mark_first_swap(pools, Lower(log.address), log.transactionHash),
                 <<"mark_first_swap", "send_swap_notification">>,
                 IF mark_first_swap_ret(pools, Lower(log.address)) THEN "True" ELSE "False",
                 None,
                 IF mark_first_swap_ret(pools, Lower(log.address)) THEN {Lower(log.address)} ELSE {})

\* the common tail of _handle_swap_v2 and _handle_swap_v3, amount being the
\* raw monitored-token amount whose absolute value is compared
ReportSwap(log, amount) ==
    IF BelowThreshold(Abs(amount)) THEN Return
    ELSE Effects(mark_first_swap(pools, Lower(log.address), log.transactionHash),
                 <<"mark_first_swap", "send_swap_notification">>,
                 IF mark_first_swap_ret(pools, Lower(log.address)) THEN "True" ELSE "False",
                 None,
                 IF mark_first_swap_ret(pools, Lower(log.address)) THEN {Lower(log.address)} ELSE {})

handle_swap_v2(log) ==
    LET pool_info == get_pool_info(pools, Lower(log.address))
        decoded == decode_swap_v2_event(log)
    IN IF pool_info = <<>> THEN Return
       ELSE IF ~decoded.ok THEN Bail(decoded)
       ELSE ReportSwap(log, IF Lower(pool_info[1].token0) = contract_address
                            THEN decoded.amount0_in - decoded.amount0_out
                            ELSE decoded.amount1_in - decoded.amount1_out)

handle_swap_v3(log) ==
    LET pool_info == get_pool_info(pools, Lower(log.address))
        decoded == decode_swap_v3_event(log)
    IN IF pool_info = <<>> THEN Return
       ELSE IF ~decoded.ok THEN Bail(decoded)
       ELSE ReportSwap(log, TokenSide(pool_info[1], decoded.amount0, decoded.amount1))

\* ------------------------------------------------------------ inbound logs
TxHashes == {"0xt1", "0xt2"}

\* raw amounts around the notification threshold
Thr == MIN_TOKENS_THRESHOLD * TokenScale

\* the two's-complement word of a negative raw amount
Neg(x) == WordBase - x

Log(address, topics, data, tx) == [address |-> address, topics |-> topics, data |-> data, transactionHash |-> tx]

\* numbers of the addresses that occur in logs: another token, two pools,
\* an ordinary account
Nr == [OtherToken |-> 7, PoolA |-> 8, PoolB |-> 9, Account |-> 10]
OtherToken == Nr.OtherToken
PoolA == Nr.PoolA
PoolB == Nr.PoolB
Account == Nr.Account

TransferLogs == {Log(ERC20_CONTRACT_ADDRESS, <<EVENT_SIGNATURES.Transfer, ft[1], ft[2]>>, <<ft[3]>>, "0xt1") : ft \in {<<Account, Account, Thr - 1>>, <<Account, Account, Thr>>, <<Account, 4, Thr - 1>>, <<Account, 4, Thr>>, <<Account, 5, Thr>>, <<0, Account, Thr>>, <<0, 0, Thr>>, <<0, 4, Thr>>, <<0, 5, Thr>>, <<PoolA, Account + AddrSpace, Thr>>, <<NotStr, Account, Thr>>}} \cup {Log(<<OtherToken, "c">>, <<EVENT_SIGNATURES.Transfer, Account, Account>>, <<Thr>>, "0xt1"), Log(Lower(ERC20_CONTRACT_ADDRESS), <<EVENT_SIGNATURES.Transfer, Account>>, <<Thr>>, "0xt1"), Log(ERC20_CONTRACT_ADDRESS, <<EVENT_SIGNATURES.Transfer, Account, Account>>, <<>>, "0xt1")}

PairCreatedLogs == {Log(UNISWAP_V2_FACTORY, <<EVENT_SIGNATURES.PairCreated, tp[1], tp[2]>>, <<0, tp[3]>>, "0xt1") : tp \in {<<1, OtherToken, PoolA>>, <<OtherToken, 1, PoolA>>, <<OtherToken, OtherToken, PoolA>>, <<OtherToken, 1, PoolB + AddrSpace>>}} \cup {Log(UNISWAP_V2_FACTORY, <<EVENT_SIGNATURES.PairCreated, 1>>, <<0, PoolA>>, "0xt1")}

PoolCreatedLogs == {Log(UNISWAP_V3_FACTORY, <<EVENT_SIGNATURES.PoolCreated, tp[1], tp[2], 3000>>, <<60, tp[3]>>, "0xt1") : tp \in {<<1, OtherToken, PoolB>>, <<1, OtherToken, PoolA>>, <<OtherToken, OtherToken, PoolB>>}} \cup {Log(UNISWAP_V3_FACTORY, <<EVENT_SIGNATURES.PoolCreated, 1, OtherToken, 3000>>, <<60>>, "0xt1")}

AmountPairs == {<<Thr - 1, Thr>>, <<Thr, Thr - 1>>}

MintLogs == {Log(<<PoolA, "u">>, <<EVENT_SIGNATURES.Mint, Account>>, <<ap[1], ap[2]>>, tx) : ap \in AmountPairs, tx \in TxHashes} \cup {Log(<<PoolA, "u">>, <<EVENT_SIGNATURES.Mint, Account>>, <<MIN_LIQUIDITY_THRESHOLD * TokenScale - 1, Thr>>, "0xt1"), Log(<<Account, "l">>, <<EVENT_SIGNATURES.Mint, Account>>, <<Thr, Thr>>, "0xt1"), Log(<<PoolA, "l">>, <<EVENT_SIGNATURES.Mint, Account>>, <<Thr>>, "0xt1")}

MintV3Logs == {Log(<<PoolB, "c">>, <<EVENT_SIGNATURES.MintV3, Account, 1, 2>>, <<Account, 5, ap[1], ap[2]>>, "0xt2") : ap \in AmountPairs} \cup {Log(<<Account, "l">>, <<EVENT_SIGNATURES.MintV3, Account, 1, 2>>, <<Account, 5, Thr, Thr>>, "0xt1"), Log(<<PoolB, "l">>, <<EVENT_SIGNATURES.MintV3, Account, 1>>, <<Account, 5, Thr, Thr>>, "0xt1")}

SwapLogs == {Log(<<PoolA, "l">>, <<EVENT_SIGNATURES.Swap, 5, Account>>, d, tx) : d \in {<<Thr, Thr - 1, 0, 0>>, <<Thr - 1, Thr, 0, 0>>, <<0, 1, Thr, Thr>>}, tx \in TxHashes} \cup {Log(<<Account, "l">>, <<EVENT_SIGNATURES.Swap, 5, Account>>, <<Thr, Thr, 0, 0>>, "0xt1"), Log(<<PoolA, "l">>, <<EVENT_SIGNATURES.Swap, 5, Account>>, <<Thr, Thr>>, "0xt1")}

SwapV3Logs == {Log(<<PoolB, "u">>, <<EVENT_SIGNATURES.SwapV3, 5, Account>>, d, "0xt2") : d \in {<<Thr, Neg(Thr - 1), 1, 1>>, <<Neg(Thr - 1), Thr, 1, 1>>, <<Neg(Thr), Neg(Thr), 1, 1>>}} \cup {Log(<<Account, "l">>, <<EVENT_SIGNATURES.SwapV3, 5, Account>>, <<Thr, Thr, 1, 1>>, "0xt1"), Log(<<PoolB, "l">>, <<EVENT_SIGNATURES.SwapV3, 5>>, <<Thr, Thr, 1, 1>>, "0xt1")}

BurnLogs == {Log(<<PoolA, "l">>, tps, <<ap[1], ap[2]>>, "0xt1") : tps \in {<<EVENT_SIGNATURES.Burn>>, <<EVENT_SIGNATURES.Burn, 5, Account>>}, ap \in AmountPairs} \cup {Log(<<Account, "l">>, <<EVENT_SIGNATURES.Burn, 5, Account>>, <<Thr, Thr>>, "0xt1"), Log(<<PoolA, "l">>, <<EVENT_SIGNATURES.Burn, 5, Account>>, <<Thr>>, "0xt1")}

SyncLogs == {Log(a, <<EVENT_SIGNATURES.Sync>>, <<Thr, Thr>>, "0xt1") : a \in {<<PoolA, "l">>, <<Account, "l">>}}

OtherLogs == {Log(<<PoolA, "l">>, <<>>, <<>>, "0xt1"), Log(<<PoolA, "l">>, <<"0xffff">>, <<Thr, Thr>>, "0xt1")}

\* topics[0] values that are close to the Transfer signature without being
\* it: in upper case, and cut short
NearSignatures == {"0xDDF2", "0xddf"}

\* logs that are a Transfer of the monitored token at the threshold in all
\* but topics[0]
NearTransferLogs == {Log(ERC20_CONTRACT_ADDRESS, <<sig, Account, Account>>, <<Thr>>, "0xt1") : sig \in NearSignatures}

\* ------------------------------------------- SpiderBot: _process_messages
\* the loop left by the exception of a handler
AfterFrame_propagate(c) == IF c = "error" THEN "sleep" ELSE "streaming"

\* the loop left by a frame that is not JSON
AfterFrame_json(c) == IF c = "json" THEN "sleep" ELSE "streaming"

\* where _subscription_loop stands after an iteration of async for that ran
\* the except clause c: both clauses only log, and the loop takes the next
\* frame
AfterFrame(c) == "streaming"

\* the handler started as a task of its own
AwaitHandler_detached(n) == n

\* await self._handle_event(...): the iteration is over only when the
\* handler has returned or raised
AwaitHandler(n) == n + 1

\* async for hands over a frame and the stop flag is not set
Ready == /\ pc = "streaming"
         /\ wsOpen
         /\ ~should_stop
         /\ inbound > 0

\* one iteration of async for that reaches _handle_event with this log, the
\* handler having left caught'
Deliver(log) == /\ Ready
                /\ inbound' = inbound - 1
                /\ read' = read + 1
                /\ handled' = AwaitHandler(handled)
                /\ lastFrame' = <<log>>
                /\ pc' = AfterFrame(caught')
                /\ UNCHANGED <<websocket, should_stop, connects, ended, slept, streamErrors, errorNotifications>>

\* frames that never reach _handle_event: text that is not JSON, a JSON
\* object without "params", one whose "params" has no "result", and a JSON
\* number (for which "params" in data raises TypeError)
OtherFrames == {"invalid_json", "no_params", "no_result", "not_object"}

\* the except clause such a frame ends in
FrameCaught(frame) == CASE frame = "invalid_json" -> "json"
                        [] frame = "not_object" -> "error"
                        [] OTHER -> "none"

\* a frame that is not JSON or carries no params.result
OnOtherFrame == \E frame \in OtherFrames : /\ pc = "streaming"
                                           /\ wsOpen
                                           /\ ~should_stop
                                           /\ inbound > 0
                                           /\ inbound' = inbound - 1
                                           /\ read' = read + 1
                                           /\ handled' = handled + 1
                                           /\ NoCalls
                                           /\ caught' = FrameCaught(frame)
                                           /\ pc' = AfterFrame(caught')
                                           /\ UNCHANGED <<pools, sub_id, websocket, should_stop, wsOpen, sent, connects, ended, slept, streamErrors, errorNotifications, firstSwapTrue>>

\* a log without topics or with a signature that is not in the table
OnUnrouted == Ready /\ \E log \in OtherLogs \cup NearTransferLogs : Route(log) = "none" /\ Return /\ Deliver(log)

OnTransfer == Ready /\ \E log \in TransferLogs \cup NearTransferLogs : Route(log) = "Transfer" /\ handle_transfer(log) /\ Deliver(log)

OnPairCreated == Ready /\ \E log \in PairCreatedLogs : Route(log) = "PairCreated" /\ handle_pair_created(log) /\ Deliver(log)

OnPoolCreatedV3 == Ready /\ \E log \in PoolCreatedLogs : Route(log) = "PoolCreated" /\ handle_pool_created_v3(log) /\ Deliver(log)

OnMintV2 == Ready /\ \E log \in MintLogs : Route(log) = "Mint" /\ handle_mint_v2(log) /\ Deliver(log)

OnMintV3 == Ready /\ \E log \in MintV3Logs : Route(log) = "MintV3" /\ handle_mint_v3(log) /\ Deliver(log)

OnSwapV2 == Ready /\ \E log \in SwapLogs : Route(log) = "Swap" /\ handle_swap_v2(log) /\ Deliver(log)

OnSwapV3 == Ready /\ \E log \in SwapV3Logs : Route(log) = "SwapV3" /\ handle_swap_v3(log) /\ Deliver(log)

OnBurnV2 == Ready /\ \E log \in BurnLogs : Route(log) = "Burn" /\ handle_burn_v2(log) /\ Deliver(log)

OnSyncV2 == Ready /\ \E log \in SyncLogs : Route(log) = "Sync" /\ handle_sync_v2(log) /\ Deliver(log)

Next == \/ LoopExit
        \/ Connect
        \/ ConnectFail
        \/ SetupSubscriptions
        \/ SetupFail
        \/ Sleep
        \/ Stop
        \/ StreamClosed
        \/ StreamError
        \/ FrameAfterStop
        \/ OnOtherFrame
        \/ OnUnrouted
        \/ OnTransfer
        \/ OnPairCreated
        \/ OnPoolCreatedV3
        \/ OnMintV2
        \/ OnMintV3
        \/ OnSwapV2
        \/ OnSwapV3
        \/ OnBurnV2
        \/ OnSyncV2

Spec == Init /\ [][Next]_vars

\* One connection that stays up and a bot that is not stopped: the registry
\* under a longer run of frames.
InitPools == Start(MaxPoolFrames)

NextPools == \/ Connect
             \/ SetupSubscriptions
             \/ OnTransfer
             \/ OnPairCreated
             \/ OnPoolCreatedV3
             \/ OnMintV2
             \/ OnMintV3
             \/ OnSwapV2
             \/ OnSwapV3
             \/ OnBurnV2
             \/ OnSyncV2

SpecPools == InitPools /\ [][NextPools]_vars

\* ------------------------------------------- pure operations on their own
\* most topics of a log handed to a decoder, the signature included
MaxTopics == 4
\* most 32-byte words in the data of a log handed to a decoder
MaxDataWords == 4

\* topic values: a padded address with its high bytes set, a string that
\* is not hexadecimal, a value that is not a string
TopicWords == {Account + AddrSpace, NotHex, NotStr}

\* data words: zero, 2**255 and the all-ones word at model scale, and a
\* word that is not hexadecimal
DataWords == {0, WordBase \div 2, WordBase - 1, NotHex}

\* topic lists of every length up to MaxTopics
TopicLists == {<<>>} \cup UNION {{<<EVENT_SIGNATURES.Transfer>> \o t : t \in [1..n -> TopicWords]} : n \in 0..(MaxTopics - 1)}

\* data of every length up to MaxDataWords, and a data value that is not a
\* string
DataLists == {<<NotStr>>} \cup UNION {[1..n -> DataWords] : n \in 0..MaxDataWords}

WellFormedTopics == <<EVENT_SIGNATURES.Transfer, Account + AddrSpace, PoolA, Account>>

\* every topic list with a few data values, every data value with well-formed
\* topics
PureLogs == {Log(<<PoolA, "l">>, t, d, "0xt1") : t \in TopicLists, d \in {<<>>, <<Thr, Thr, Thr, Thr>>, <<NotStr>>}} \cup {Log(<<PoolA, "l">>, WellFormedTopics, d, "0xt1") : d \in DataLists}

\* the integer value of the whole data is within the integers of the model
Fits(log) == \/ ~WordsAreHex(log, DOMAIN log.data)
             \/ /\ \A i \in 1..(Len(log.data) - 2) : log.data[i] = 0
                /\ Len(log.data) >= 2 => log.data[Len(log.data) - 1] = 0

\* addresses handed to the classifier, in the three letter cases
PureAddresses == {<<n, c>> : n \in {ZERO_ADDRESS[1], BURN_ADDRESS[1], 5, 6, PoolA, Account}, c \in {"l", "c", "u"}}

\* pool context handed to the classifier: none, a pool without and a pool
\* with liquidity
PurePoolInfos == {<<>>, <<NewPool(<<PoolA, "c">>, ERC20_CONTRACT_ADDRESS, <<OtherToken, "c">>, "V2")>>, <<[NewPool(<<PoolA, "c">>, ERC20_CONTRACT_ADDRESS, <<OtherToken, "c">>, "V2") EXCEPT !.has_liquidity = TRUE]>>}

\* the operation fn applied to arg gives out; the bot itself is not touched
Apply(fn, arg, out) == /\ probe = NoProbe
                       /\ probe' = [fn |-> fn, arg |-> arg, out |-> <<out>>]
                       /\ UNCHANGED <<pools, sub_id, websocket, should_stop, pc, wsOpen, sent, connects, inbound, lastFrame, calls, is_first, tx_type, status_text, ended, slept, streamErrors, errorNotifications, firstSwapTrue, notify, caught, read, handled, telegram>>

ApplyDecodeTransfer == \E log \in PureLogs : Fits(log) /\ Apply("decode_transfer", <<log>>, decode_transfer(log))

ApplyDecodePairCreated == \E log \in PureLogs : Apply("decode_pair_created", <<log>>, decode_pair_created(log))

ApplyDecodeMint == \E log \in PureLogs : Apply("decode_mint_event", <<log>>, decode_mint_event(log))

ApplyDecodeMintV3 == \E log \in PureLogs : Apply("decode_mint_v3_event", <<log>>, decode_mint_v3_event(log))

ApplyDecodePoolCreatedV3 == \E log \in PureLogs : Apply("decode_pool_created_v3", <<log>>, decode_pool_created_v3(log))

ApplyDecodeSwapV2 == \E log \in PureLogs : Apply("decode_swap_v2_event", <<log>>, decode_swap_v2_event(log))

ApplyDecodeSwapV3 == \E log \in PureLogs : Apply("decode_swap_v3_event", <<log>>, decode_swap_v3_event(log))

ApplyDecodeBurn == \E log \in PureLogs : Apply("decode_burn_event", <<log>>, decode_burn_event(log))

ApplyClassify == \E from_addr \in PureAddresses, to_addr \in PureAddresses, pool_info \in PurePoolInfos : Apply("classify_transaction_type", <<from_addr, to_addr, pool_info>>, classify_transaction_type(from_addr, to_addr, pool_info))

\* registries handed to find_related_pool: empty, one pool, two pools
PureRegistries == {<<>>, add_pool(<<>>, <<PoolA, "c">>, ERC20_CONTRACT_ADDRESS, <<OtherToken, "c">>, "V2"), add_pool(add_pool(<<>>, <<PoolA, "c">>, ERC20_CONTRACT_ADDRESS, <<OtherToken, "c">>, "V2"), <<PoolB, "c">>, <<OtherToken, "c">>, ERC20_CONTRACT_ADDRESS, "V3")}

\* from and to handed to find_related_pool: the two pools and an ordinary
\* account, in the three letter cases
RelatedAddresses == {<<n, c>> : n \in {PoolA, PoolB, Account}, c \in {"l", "c", "u"}}

ApplyFindRelatedPool == \E from_addr \in RelatedAddresses, to_addr \in RelatedAddresses, ps \in PureRegistries : Apply("find_related_pool", <<from_addr, to_addr, ps>>, find_related_pool(from_addr, to_addr, ps))

\* raw amounts handed to assess_liquidity_quality: none, around the
\* liquidity threshold, and the notification threshold
LiquidityAmounts == {0, MIN_LIQUIDITY_THRESHOLD * TokenScale - 1, MIN_LIQUIDITY_THRESHOLD * TokenScale, MIN_LIQUIDITY_THRESHOLD * TokenScale + 1, Thr}

ApplyAssessLiquidityQuality == \E token_amount \in LiquidityAmounts : Apply("assess_liquidity_quality", <<token_amount>>, assess_liquidity_quality(token_amount))

InitPure == Start(0)

NextPure == \/ ApplyDecodeTransfer
            \/ ApplyDecodePairCreated
            \/ ApplyDecodeMint
            \/ ApplyDecodeMintV3
            \/ ApplyDecodePoolCreatedV3
            \/ ApplyDecodeSwapV2
            \/ ApplyDecodeSwapV3
            \/ ApplyDecodeBurn
            \/ ApplyClassify
            \/ ApplyFindRelatedPool
            \/ ApplyAssessLiquidityQuality

SpecPure == InitPure /\ [][NextPure]_vars

\* ------------------------------------------------- PoolTracker on its own
\* addresses handed to the methods of PoolTracker: one pool address in the
\* three letter cases and another one
TrackerAddresses == {<<PoolA, c>> : c \in {"l", "c", "u"}} \cup {<<PoolB, "c">>}

\* the method fn called with arg returns out and leaves the registry ps
Call(fn, arg, out, ps) == /\ probe' = [fn |-> fn, arg |-> arg, out |-> <<out>>]
                          /\ pools' = ps
                          /\ UNCHANGED <<sub_id, websocket, should_stop, pc, wsOpen, sent, connects, inbound, lastFrame, calls, is_first, tx_type, status_text, ended, slept, streamErrors, errorNotifications, firstSwapTrue, notify, caught, read, handled, telegram>>

CallAddPool == \E a \in TrackerAddresses : Call("add_pool", <<a>>, None, add_pool(pools, a, ERC20_CONTRACT_ADDRESS, <<OtherToken, "c">>, "V2"))

CallGetPoolInfo == \E a \in TrackerAddresses : Call("get_pool_info", <<a>>, get_pool_info(pools, a), pools)

CallMarkLiquidityAdded == \E a \in TrackerAddresses, tx \in TxHashes : Call("mark_liquidity_added", <<a, tx>>, None, mark_liquidity_added(pools, a, tx))

CallMarkFirstSwap == \E a \in TrackerAddresses, tx \in TxHashes : Call("mark_first_swap", <<a, tx>>, mark_first_swap_ret(pools, a), mark_first_swap(pools, a, tx))

InitTracker == Start(0)

NextTracker == \/ CallAddPool
               \/ CallGetPoolInfo
               \/ CallMarkLiquidityAdded
               \/ CallMarkFirstSwap

SpecTracker == InitTracker /\ [][NextTracker]_vars

\* ------------------------------------------- TelegramBot.send_message
\* what the rest of the bot keeps while send_message runs
LoopVars == <<pools, sub_id, websocket, should_stop, pc, wsOpen, sent, connects, inbound, lastFrame, calls, is_first, tx_type, status_text, ended, slept, streamErrors, errorNotifications, firstSwapTrue, notify, caught, read, handled, probe>>

\* values a Retry-After header takes: delay-seconds, or an HTTP-date
RetryAfterHeaders == {"1", "120", "Fri, 06 Nov 2026 08:00:00 GMT"}

\* int(s) for a header value: <<n>> for a decimal string, <<>> when int
\* raises ValueError; the default 60 is an int already
int(s) == CASE s = None -> <<RetryAfterDefault>>
            [] s = "1" -> <<1>>
            [] s = "120" -> <<120>>
            [] OTHER -> <<>>

Response(status, retry_after) == [kind |-> "response", status |-> status, retry_after |-> retry_after]

\* what one session.post ends in: a response with its status (and, for a
\* 429, its Retry-After header or None when there is none),
\* asyncio.TimeoutError, or another exception
PostOutcomes == {Response(200, None), Response(500, None)}
                \cup {Response(429, h) : h \in {None} \cup RetryAfterHeaders}
                \cup {[kind |-> "TimeoutError", status |-> 0, retry_after |-> None], [kind |-> "Exception", status |-> 0, retry_after |-> None]}

NoSleep == [call |-> "none", seconds |-> 0]

\* the body of the try statement for one outcome of the POST: return True,
\* the sleep of the 429 branch followed by continue, or falling out of the
\* try statement (an error status logged, or an except clause run - the
\* ValueError of int() included)
TryBody(outcome) == IF outcome.kind # "response" THEN "after_try"
                    ELSE IF outcome.status = 200 THEN "return_true"
                    ELSE IF outcome.status = 429
                         THEN (IF int(outcome.retry_after) = <<>> THEN "after_try" ELSE "rate_limited")
                    ELSE "after_try"

\* send_message is called: gif_url and payload are built, the loop starts
SendMessage == /\ telegram.pc = "idle"
               /\ telegram' = [telegram EXCEPT !.pc = "for"]
               /\ UNCHANGED LoopVars

\* for attempt in range(TELEGRAM_MAX_RETRIES): one POST and the branch of
\* the try statement it leads to
Post == /\ telegram.pc = "for"
        /\ telegram.attempt < TELEGRAM_MAX_RETRIES
        /\ \E outcome \in PostOutcomes :
               telegram' = [telegram EXCEPT !.posts = Append(@, outcome),
                                            !.pc = IF TryBody(outcome) = "return_true" THEN "done" ELSE TryBody(outcome),
                                            !.returned = IF TryBody(outcome) = "return_true" THEN "True" ELSE @]
        /\ UNCHANGED LoopVars

\* await asyncio.sleep(retry_after); continue
RateLimitSleep == /\ telegram.pc = "rate_limited"
                  /\ telegram' = [telegram EXCEPT !.sleeps = Append(@, [call |-> "retry_after", seconds |-> int(telegram.posts[Len(telegram.posts)].retry_after)[1]]),
                                                   !.attempt = @ + 1,
                                                   !.pc = "for"]
                  /\ UNCHANGED LoopVars

\* if attempt < TELEGRAM_MAX_RETRIES - 1: await asyncio.sleep(TELEGRAM_RETRY_DELAY)
RetryDelay == /\ telegram.pc = "after_try"
              /\ telegram' = [telegram EXCEPT !.sleeps = Append(@, IF telegram.attempt < TELEGRAM_MAX_RETRIES - 1
                                                                   THEN [call |-> "TELEGRAM_RETRY_DELAY", seconds |-> TELEGRAM_RETRY_DELAY]
                                                                   ELSE NoSleep),
                                               !.attempt = @ + 1,
                                               !.pc = "for"]
              /\ UNCHANGED LoopVars

\* the range is used up: return False
ReturnFalse == /\ telegram.pc = "for"
               /\ telegram.attempt = TELEGRAM_MAX_RETRIES
               /\ telegram' = [telegram EXCEPT !.pc = "done", !.returned = "False"]
               /\ UNCHANGED LoopVars

InitSend == Start(0)

NextSend == \/ SendMessage
            \/ Post
            \/ RateLimitSleep
            \/ RetryDelay
            \/ ReturnFalse

SpecSend == InitSend /\ [][NextSend]_vars

\* send_message is a coroutine that the event loop resumes after every
\* await: the POST ends within its timeout and each sleep ends
SpecSendLive == InitSend /\ [][NextSend]_vars /\ WF_vars(NextSend)

\* ----------------------------------------------------------------- fairness
\* _subscription_loop takes its own steps: it leaves the while loop, starts a
\* connect, finishes the subscription setup and wakes up from its sleep.
\* Nothing obliges the network to deliver a frame, to fail or to close, nor
\* a signal to arrive.
LoopSteps == LoopExit \/ Connect \/ ConnectFail \/ SetupSubscriptions \/ SetupFail \/ Sleep

SpecLive == Init /\ [][Next]_vars /\ WF_vars(LoopSteps)

\* ------------------------------------------------------------------ claims
Called(op) == \E i \in DOMAIN calls : calls[i] = op

\* the registry key a PairCreated / PoolCreated log asks to register
CreatedKey(log) == IF Route(log) = "PairCreated" THEN Lower(decode_pair_created(log).pair) ELSE Lower(decode_pool_created_v3(log).pool)

\* the step registers, through add_pool, the key that entry i already has
ReRegisters(i) == /\ Called("add_pool")'
                  /\ CreatedKey(lastFrame'[1]) = pools[i].key

\* C1: add_pool for an address that is already registered leaves one entry
\* for it and leaves has_liquidity, first_mint and first_swap as they were.
C1_AddPoolIdempotent == [][\A i \in DOMAIN pools : ReRegisters(i) => /\ Len(pools') = Len(pools)
                                                                     /\ pools'[i].has_liquidity = pools[i].has_liquidity
                                                                     /\ pools'[i].first_mint = pools[i].first_mint
                                                                     /\ pools'[i].first_swap = pools[i].first_swap]_vars

\* the entry of pools' with the key of entry i of pools
Later(i) == {j \in DOMAIN pools' : pools'[j].key = pools[i].key}

\* C2: once has_liquidity of a registered pool is true, it is true in every
\* later state.
C2_LiquidityMonotonic == [][\A i \in DOMAIN pools : pools[i].has_liquidity => \E j \in Later(i) : pools'[j].has_liquidity]_vars

\* C3: once first_mint (first_swap) holds a transaction id, no step changes
\* it or unsets it.
C3_MilestonesFirstWriteWins == [][\A i \in DOMAIN pools : /\ pools[i].first_mint # None => \E j \in Later(i) : pools'[j].first_mint = pools[i].first_mint
                                                          /\ pools[i].first_swap # None => \E j \in Later(i) : pools'[j].first_swap = pools[i].first_swap]_vars

\* C4: for every pool address mark_first_swap returns True at most once, so
\* at most one swap notification per pool carries is_first_swap = True.
C4_FirstSwapOnce == \A k \in AllKeys : firstSwapTrue[k] <= 1

\* C5: token0, token1 and version of a registered pool are the same in
\* every later state.
C5_PoolIdentityFixed == [][\A i \in DOMAIN pools : \E j \in Later(i) : /\ pools'[j].token0 = pools[i].token0
                                                                       /\ pools'[j].token1 = pools[i].token1
                                                                       /\ pools'[j].version = pools[i].version]_vars

\* C6: when the loop is about to connect again, every error or remote close
\* that ended a Streaming connection has had exactly one
\* send_error_notification.
C6_ErrorNotifiedOnce == (pc = "loop" /\ ~should_stop) => errorNotifications = streamErrors

\* the step is a connect attempt
ConnectAttempt == connects' = connects + 1

\* C7: after a connection has ended with the stop flag unset, the next
\* connect attempt starts only once the WS_RECONNECT_DELAY sleep has run.
C7_ReconnectAfterDelay == [][ConnectAttempt => (ended = "none" \/ slept)]_vars

\* the addresses of the requests that _setup_subscriptions wrote in this step
SetupSent == UNION {{sent'[i].addresses[n] : n \in DOMAIN sent'[i].addresses} : i \in (Len(sent) + 1)..Len(sent')}

\* C8: when _setup_subscriptions returns, and so before any frame of the
\* connection is processed, its requests cover the monitored token, both
\* factories and every pool in the registry.
C8_SetupCoversRegistry == [][(pc = "setup" /\ pc' = "streaming") => /\ {Lower(ERC20_CONTRACT_ADDRESS), Lower(UNISWAP_V2_FACTORY), Lower(UNISWAP_V3_FACTORY)} \subseteq SetupSent
                                                                   /\ \A i \in DOMAIN pools : pools[i].key \in SetupSent
                                                                   /\ \A r \in (Len(sent) + 1)..Len(sent') : sent'[r].ok /\ sent'[r].conn = websocket]_vars

\* a second connection is streaming, no frame handled yet, whose setup
\* carried a pool registered on the first connection
C8_Witness == /\ pc = "streaming"
              /\ websocket = 2
              /\ pools # <<>>
              /\ sent # <<>>
              /\ sent[Len(sent)].conn = 2
              /\ sent[Len(sent)].ok
              /\ \E n \in DOMAIN sent[Len(sent)].addresses : sent[Len(sent)].addresses[n] = pools[1].key
              /\ \E i \in DOMAIN sent : sent[i].conn = 1 /\ sent[i].addresses = <<pools[1].key>>

\* C9: the ids of the requests handed to websocket.send are strictly
\* increasing in send order, the first is 1, the next id to use is above all
\* of them, and a call with an empty address list sends nothing and uses no id.
C9_RequestIdsIncrease == /\ sent # <<>> => sent[1].id = 1
                         /\ \A i, j \in DOMAIN sent : i < j => sent[i].id < sent[j].id
                         /\ \A i \in DOMAIN sent : sent[i].id < sub_id
                         /\ \A ok \in BOOLEAN : subscribe_to_addresses([sub_id |-> sub_id, sent |-> sent, raised |-> FALSE], <<>>, ok) = [sub_id |-> sub_id, sent |-> sent, raised |-> FALSE]

\* requests of two connections, one of them issued mid-connection for a
\* newly discovered pool
C9_Witness == /\ \E i \in DOMAIN sent : sent[i].conn = 1 /\ Len(sent[i].addresses) = 1
              /\ \E j \in DOMAIN sent : sent[j].conn = 2
              /\ Len(sent) >= 4

ThresholdKinds == {"Transfer", "Mint", "MintV3", "Burn", "Swap", "SwapV3"}

\* the log reaches the threshold comparison of its handler: a Transfer of
\* the monitored token, or a pool event of a registered pool, that decodes
ReachesThreshold(log) == CASE Route(log) = "Transfer" -> Lower(log.address) = contract_address /\ decode_transfer(log).ok
                           [] Route(log) = "Mint" -> HasKey(pools, Lower(log.address)) /\ decode_mint_event(log).ok
                           [] Route(log) = "MintV3" -> HasKey(pools, Lower(log.address)) /\ decode_mint_v3_event(log).ok
                           [] Route(log) = "Burn" -> HasKey(pools, Lower(log.address)) /\ decode_burn_event(log).ok
                           [] Route(log) = "Swap" -> HasKey(pools, Lower(log.address)) /\ decode_swap_v2_event(log).ok
                           [] Route(log) = "SwapV3" -> HasKey(pools, Lower(log.address)) /\ decode_swap_v3_event(log).ok
                           [] OTHER -> FALSE

\* whether the monitored token is token0 of the pool that emitted the log
Token0Side(log) == Lower(pools[KeyIndex(pools, Lower(log.address))].token0) = Lower(ERC20_CONTRACT_ADDRESS)

\* the raw monitored-token amount of a log that reaches the comparison
\* (absolute net amount for swaps)
MonitoredAmount(log) == CASE Route(log) = "Transfer" -> log.data[1]
                          [] Route(log) \in {"Mint", "Burn"} -> IF Token0Side(log) THEN log.data[1] ELSE log.data[2]
                          [] Route(log) = "MintV3" -> IF Token0Side(log) THEN log.data[3] ELSE log.data[4]
                          [] Route(log) = "Swap" -> IF Token0Side(log) THEN Abs(log.data[1] - log.data[3]) ELSE Abs(log.data[2] - log.data[4])
                          [] Route(log) = "SwapV3" -> IF Token0Side(log) THEN Abs(Signed(log.data[1])) ELSE Abs(Signed(log.data[2]))

ClassifierOps == {"find_related_pool", "classify_transaction_type", "assess_liquidity_quality"}

SendOps == {"send_transfer_notification", "send_swap_notification", "send_pool_created_notification", "send_liquidity_added_notification", "send_burn_notification", "send_token_burn_notification"}

Filtered == \A i \in DOMAIN calls : calls[i] \notin ClassifierOps \cup SendOps

Notified == \E i \in DOMAIN calls : calls[i] \in SendOps

\* C10: a Transfer, Mint, Burn or Swap log whose monitored-token amount is
\* strictly below MIN_TOKENS_THRESHOLD invokes no classifier operation and
\* no send_* operation; an amount equal to the threshold passes the filter
\* and is notified (a Burn needs its sender topic as well).
C10_ThresholdFiltering ==
    \A log \in {lastFrame[n] : n \in DOMAIN lastFrame} :
        (Route(log) \in ThresholdKinds /\ ReachesThreshold(log)) =>
            /\ (MonitoredAmount(log) < MIN_TOKENS_THRESHOLD * TokenScale) => Filtered
            /\ (MonitoredAmount(log) = MIN_TOKENS_THRESHOLD * TokenScale /\ (Route(log) = "Burn" => Len(log.topics) >= 2)) => Notified

\* a Mint of a registered pool just below the threshold has been handled
C10_Witness == /\ lastFrame # <<>>
               /\ Route(lastFrame[1]) = "Mint"
               /\ ReachesThreshold(lastFrame[1])
               /\ MonitoredAmount(lastFrame[1]) = MIN_TOKENS_THRESHOLD * TokenScale - 1
               /\ calls = <<>>

\* the log handled by the step that led to this state, if any
Handled == {lastFrame[n] : n \in DOMAIN lastFrame}

\* an above-threshold Transfer of the monitored token from the zero address
MintTransfer(log) == /\ Route(log) = "Transfer"
                     /\ Lower(log.address) = Lower(ERC20_CONTRACT_ADDRESS)
                     /\ decode_transfer(log).ok
                     /\ decode_transfer(log).amount >= MIN_TOKENS_THRESHOLD * TokenScale
                     /\ Lower(decode_transfer(log).from) = Lower(ZERO_ADDRESS)

\* C11: an above-threshold Transfer of the monitored token whose from is
\* the zero address is classified and notified as a token mint, whatever its
\* to is (zero address, burn address and DEX router included).
C11_ZeroFromIsMint == \A log \in Handled : MintTransfer(log) => (tx_type = "TOKEN MINT" /\ Called("send_transfer_notification"))

\* the registry that the handler of this log leaves when its notification
\* is sent
RegistryWhenSent(log) == CASE Route(log) = "PairCreated" -> add_pool(pools, decode_pair_created(log).pair, decode_pair_created(log).token0, decode_pair_created(log).token1, "V2")
                           [] Route(log) = "PoolCreated" -> add_pool(pools, decode_pool_created_v3(log).pool, decode_pool_created_v3(log).token0, decode_pool_created_v3(log).token1, "V3")
                           [] Route(log) \in {"Mint", "MintV3"} -> mark_liquidity_added(pools, log.address, log.transactionHash)
                           [] Route(log) \in {"Swap", "SwapV3"} -> mark_first_swap(pools, log.address, log.transactionHash)
                           [] OTHER -> pools

\* C12: when the send_* call of a handler returns after a failure or
\* raises, the registry is left as it is left when the call succeeds, and
\* the loop of the connection stays where it takes the next frame.
C12_NotificationFailureHarmless == [][\A n \in DOMAIN lastFrame' : notify' \in {"sent", "failed", "raised"} => /\ pools' = RegistryWhenSent(lastFrame'[n])
                                                                                                              /\ pc' = "streaming"
                                                                                                              /\ wsOpen'
                                                                                                              /\ websocket' = websocket]_vars

\* the first swap of a registered pool has been recorded although its
\* notification raised
C12_Witness == /\ notify = "raised"
               /\ caught = "error"
               /\ pc = "streaming"
               /\ lastFrame # <<>>
               /\ Route(lastFrame[1]) = "Swap"
               /\ pools # <<>>
               /\ pools[1].first_swap = lastFrame[1].transactionHash

\* the step ends a connect attempt, the subscription setup or a Streaming
\* connection with an error or a remote close
ErrorStep == \/ ConnectAttempt /\ pc' # "setup"
             \/ pc = "setup" /\ pc' \notin {"setup", "streaming"}
             \/ pc = "streaming" /\ streamErrors' # streamErrors

\* C13: _subscription_loop is over only if the stop flag is set; a frame
\* that ends in an except clause of _process_messages leaves the loop in
\* Streaming, and a connect failure or transport error leaves it on its way
\* back to connecting.
C13_OnlyStopTerminates == [][/\ pc' = "done" => should_stop'
                             /\ caught' # "none" => pc' = "streaming"
                             /\ ErrorStep => pc' \in {"sleep", "loop"}]_vars

\* a second connection is streaming after the first one broke, and the
\* handler of its last frame raised
C13_Witness == /\ pc = "streaming"
               /\ websocket = 2
               /\ ended = "error"
               /\ streamErrors > 0
               /\ caught = "error"
               /\ ~should_stop

\* the step reads a frame that never reaches _handle_event
SkipsFrame == read' = read + 1 /\ lastFrame' = <<>> /\ ~should_stop

\* C14: a frame that is not JSON, or is JSON without params.result,
\* changes neither the registry nor the request-id counter nor the
\* connection, notifies nothing, and leaves the loop where it takes the
\* next frame.
C14_MalformedFrameSkipped == [][SkipsFrame => /\ UNCHANGED <<pools, sub_id, sent, websocket, wsOpen, connects, ended, streamErrors, errorNotifications, firstSwapTrue>>
                                              /\ calls' = <<>>
                                              /\ notify' = "none"
                                              /\ pc' = "streaming"
                                              /\ wsOpen']_vars

\* a frame that is not JSON has been skipped on a connection that is still
\* up, with a frame still to come
C14_Witness == /\ caught = "json"
               /\ lastFrame = <<>>
               /\ read = 1
               /\ pc = "streaming"
               /\ wsOpen
               /\ inbound > 0

C16_StopTerminates == should_stop ~> (pc = "done")

DecodeOps == {"decode_transfer", "decode_pair_created", "decode_mint_event", "decode_mint_v3_event", "decode_pool_created_v3", "decode_swap_v2_event", "decode_swap_v3_event", "decode_burn_event"}

\* the fewest topics a decoder asks for
MinTopics(fn) == CASE fn \in {"decode_transfer", "decode_pair_created", "decode_pool_created_v3", "decode_swap_v2_event", "decode_swap_v3_event"} -> 3
                   [] fn = "decode_mint_v3_event" -> 4
                   [] OTHER -> 0

\* the fewest data words a decoder asks for
MinDataWords(fn) == CASE fn \in {"decode_transfer", "decode_pair_created"} -> 1
                      [] fn \in {"decode_mint_event", "decode_burn_event", "decode_pool_created_v3"} -> 2
                      [] OTHER -> 4

\* C17: every decode_* operation, for any log whatsoever, returns a decoded
\* tuple or None and never raises; it returns None whenever the log has
\* fewer topics or less data than the operation asks for.
C17_DecodeNeverRaises == probe.fn \in DecodeOps => /\ probe.out[1].ok \/ ~probe.out[1].raised
                                                   /\ (Len(probe.arg[1].topics) < MinTopics(probe.fn) \/ (DataIsStr(probe.arg[1]) /\ Len(probe.arg[1].data) < MinDataWords(probe.fn))) => probe.out[1] = Failed

\* a log of hexadecimal strings with the topics and data of a Transfer
ValidTransfer(log) == /\ Len(log.topics) >= 3
                      /\ Len(log.data) >= 1
                      /\ \A i \in 2..Len(log.topics) : log.topics[i] >= 0
                      /\ \A i \in DOMAIN log.data : log.data[i] >= 0

\* C18: for a Transfer log with at least 3 topics and at least one data
\* word, decode_transfer returns the low 20 bytes of topic 1 and of topic 2
\* and the first data word as the (raw) amount, also when data is longer,
\* and returns the same when applied again.
C18_TransferDecoding == (probe.fn = "decode_transfer" /\ ValidTransfer(probe.arg[1])) => /\ probe.out[1].ok
                                                                                        /\ Lower(probe.out[1].from) = <<probe.arg[1].topics[2] % AddrSpace, "l">>
                                                                                        /\ Lower(probe.out[1].to) = <<probe.arg[1].topics[3] % AddrSpace, "l">>
                                                                                        /\ probe.out[1].amount = probe.arg[1].data[1]
                                                                                        /\ decode_transfer(probe.arg[1]) = probe.out[1]

\* the magnitude of the two's-complement word w
Magnitude(w) == IF w < WordBase \div 2 THEN w ELSE WordBase - w

\* C19: for a SwapV3 log that decodes, each returned amount is non-negative
\* and is w for a raw word w below 2**255 and 2**256 - w otherwise; the
\* all-ones word gives 1 and the word 2**255 gives 2**255.
C19_SwapV3Magnitudes == (probe.fn = "decode_swap_v3_event" /\ probe.out[1].ok) => /\ probe.out[1].amount0 >= 0
                                                                                  /\ probe.out[1].amount1 >= 0
                                                                                  /\ probe.out[1].amount0 = Magnitude(probe.arg[1].data[1])
                                                                                  /\ probe.out[1].amount1 = Magnitude(probe.arg[1].data[2])
                                                                                  /\ probe.arg[1].data[1] = WordBase - 1 => probe.out[1].amount0 = 1
                                                                                  /\ probe.arg[1].data[2] = WordBase \div 2 => probe.out[1].amount1 = WordBase \div 2

\* the all-ones word and the word 2**255 have been decoded
C19_Witness == /\ probe.fn = "decode_swap_v3_event"
               /\ probe.out[1].ok
               /\ probe.arg[1].data[1] = WordBase - 1
               /\ probe.arg[1].data[2] = WordBase \div 2
               /\ probe.out[1].amount0 = 1
               /\ probe.out[1].amount1 = WordBase \div 2

\* the 20-byte values of the configured router and exchange addresses
RouterValues == {a[1] : a \in DEX_ROUTERS}
ExchangeValues == {a[1] : a \in CEX_ADDRESSES}

\* the category of the first matching rule, for the 20-byte values f and t
\* of from and to and the pool context p
FirstMatch(f, t, p) == IF f = ZERO_ADDRESS[1] THEN "TOKEN MINT"
                       ELSE IF t \in {ZERO_ADDRESS[1], BURN_ADDRESS[1]} THEN "TOKEN BURN"
                       ELSE IF p # <<>> /\ p[1].has_liquidity THEN "POOL ACTIVITY"
                       ELSE IF p # <<>> THEN "POOL SETUP"
                       ELSE IF f \in RouterValues \/ t \in RouterValues THEN "DEX SWAP"
                       ELSE IF f \in ExchangeValues THEN "CEX WITHDRAW"
                       ELSE IF t \in ExchangeValues THEN "CEX DEPOSIT"
                       ELSE "TRANSFER"

\* C20: classify_transaction_type returns the category of the first
\* matching rule of the fixed order mint, burn, pool, router, exchange
\* withdrawal, exchange deposit, transfer, whatever the letter case of the
\* two addresses.
C20_ClassifierPrecedence == probe.fn = "classify_transaction_type" => probe.out[1] = FirstMatch(probe.arg[1][1], probe.arg[2][1], probe.arg[3])

\* the zero address in upper case as from and the burn address as to, with
\* a pool given: the mint rule wins
C20_Witness == /\ probe.fn = "classify_transaction_type"
               /\ probe.arg[1] = <<ZERO_ADDRESS[1], "u">>
               /\ probe.arg[2] = <<BURN_ADDRESS[1], "c">>
               /\ probe.arg[3] # <<>>
               /\ probe.out[1] = "TOKEN MINT"

\* the 20-byte value of the monitored token is that of token0 or of token1,
\* whatever the letter case of the strings
NamesMonitoredToken(token0, token1) == token0[1] = ERC20_CONTRACT_ADDRESS[1] \/ token1[1] = ERC20_CONTRACT_ADDRESS[1]

\* what the decoder of a PairCreated / PoolCreated log returns
CreatedDecoded(log) == IF Route(log) = "PairCreated" THEN decode_pair_created(log) ELSE decode_pool_created_v3(log)

\* the version a PairCreated / PoolCreated log registers its pool with
CreatedVersion(log) == IF Route(log) = "PairCreated" THEN "V2" ELSE "V3"

\* the registry holds, under the key of the pool the log names, a record as
\* add_pool writes it for this log
FreshlyRegistered(log) == \E i \in DOMAIN pools : /\ pools[i].key = CreatedKey(log)
                                                   /\ pools[i].address[1] = CreatedKey(log)[1]
                                                   /\ pools[i].token0 = CreatedDecoded(log).token0
                                                   /\ pools[i].token1 = CreatedDecoded(log).token1
                                                   /\ pools[i].version = CreatedVersion(log)
                                                   /\ pools[i].has_liquidity = FALSE
                                                   /\ pools[i].first_mint = None
                                                   /\ pools[i].first_swap = None

\* C21: a PairCreated (PoolCreated) log that decodes gets its pool
\* registered exactly when token0 or token1 is the monitored token, in any
\* letter case; the record then has version V2 (V3), has_liquidity false and
\* no first_mint and first_swap; and every pool of the registry has the
\* monitored token as token0 or token1.
C21_RegisteredIffMonitored ==
    /\ \A log \in Handled :
           (Route(log) \in {"PairCreated", "PoolCreated"} /\ CreatedDecoded(log).ok) =>
               /\ Called("add_pool") <=> NamesMonitoredToken(CreatedDecoded(log).token0, CreatedDecoded(log).token1)
               /\ Called("add_pool") => FreshlyRegistered(log)
    /\ \A i \in DOMAIN pools : NamesMonitoredToken(pools[i].token0, pools[i].token1)

\* a V2 pair with the monitored token as token1 and a V3 pool with it as
\* token0 are registered, the latter by the log just handled
C21_Witness == /\ Len(pools) = 2
               /\ pools[1].version = "V2"
               /\ pools[1].token1[1] = ERC20_CONTRACT_ADDRESS[1]
               /\ pools[2].version = "V3"
               /\ pools[2].token0[1] = ERC20_CONTRACT_ADDRESS[1]
               /\ lastFrame # <<>>
               /\ Route(lastFrame[1]) = "PoolCreated"
               /\ Called("add_pool")

\* C22: a Mint or MintV3 log of a registered pool that decodes, with a
\* monitored-token amount at or above MIN_TOKENS_THRESHOLD, sets
\* has_liquidity of that pool, sets its first_mint to the transaction hash
\* of the log when first_mint was unset, and changes no other record.
C22_MintMarksLiquidity ==
    [][\A n \in DOMAIN lastFrame' :
          (/\ Route(lastFrame'[n]) \in {"Mint", "MintV3"}
           /\ ReachesThreshold(lastFrame'[n])
           /\ MonitoredAmount(lastFrame'[n]) >= MIN_TOKENS_THRESHOLD * TokenScale) =>
              /\ Len(pools') = Len(pools)
              /\ pools'[KeyIndex(pools, Lower(lastFrame'[n].address))].key = Lower(lastFrame'[n].address)
              /\ pools'[KeyIndex(pools, Lower(lastFrame'[n].address))].has_liquidity
              /\ pools[KeyIndex(pools, Lower(lastFrame'[n].address))].first_mint = None => pools'[KeyIndex(pools, Lower(lastFrame'[n].address))].first_mint = lastFrame'[n].transactionHash
              /\ \A j \in DOMAIN pools : j # KeyIndex(pools, Lower(lastFrame'[n].address)) => pools'[j] = pools[j]]_vars

\* of two registered pools, the first has just had its first liquidity
\* recorded by a Mint at the threshold and the second is untouched
C22_Witness == /\ Len(pools) = 2
               /\ lastFrame # <<>>
               /\ Route(lastFrame[1]) = "Mint"
               /\ Lower(lastFrame[1].address) = pools[1].key
               /\ pools[1].has_liquidity
               /\ pools[1].first_mint = lastFrame[1].transactionHash
               /\ ~pools[2].has_liquidity
               /\ pools[2].first_mint = None
               /\ Called("mark_liquidity_added")

\* the names of the signature table whose entry equals topics[0] of the log
TableNames(log) == IF log.topics = <<>> THEN {} ELSE {name \in DOMAIN EVENT_SIGNATURES : log.topics[1] = EVENT_SIGNATURES[name]}

\* no two entries of the signature table are the same string
SignaturesDistinct == \A a, b \in DOMAIN EVENT_SIGNATURES : EVENT_SIGNATURES[a] = EVENT_SIGNATURES[b] => a = b

\* the collaborator operations that the handler of a table entry can invoke
HandlerOps(name) == CASE name = "Transfer" -> {"send_token_burn_notification", "send_swap_notification", "find_related_pool", "classify_transaction_type", "send_transfer_notification"}
                      [] name \in {"PairCreated", "PoolCreated"} -> {"is_contract_involved", "add_pool", "send", "send_pool_created_notification"}
                      [] name \in {"Mint", "MintV3"} -> {"mark_liquidity_added", "assess_liquidity_quality", "send_liquidity_added_notification"}
                      [] name \in {"Swap", "SwapV3"} -> {"mark_first_swap", "send_swap_notification"}
                      [] name = "Burn" -> {"send_burn_notification"}
                      [] OTHER -> {}

\* the step that handles the log does nothing at all
Ignored == /\ calls' = <<>>
           /\ notify' = "none"
           /\ caught' = "none"
           /\ pc' = "streaming"
           /\ UNCHANGED <<pools, sub_id, sent, firstSwapTrue, wsOpen>>

\* C23: topics[0] of a log equals at most one entry of the signature
\* table; what the step of a log invokes belongs to the handler of the entry
\* that topics[0] equals exactly; a log without topics, or whose topics[0]
\* equals no entry (it may differ from one in letter case only, or be a
\* prefix of one), runs no handler, leaves the registry and the requests as
\* they are, notifies nothing and raises nothing.
C23_ExactRouting ==
    [][\A n \in DOMAIN lastFrame' :
          LET names == TableNames(lastFrame'[n])
          IN /\ SignaturesDistinct
             /\ calls' # <<>> => \E name \in names : \A i \in DOMAIN calls' : calls'[i] \in HandlerOps(name)
             /\ names = {} => Ignored]_vars

\* with a pool registered, a log that is an above-threshold Transfer but for
\* the letter case of its signature has been ignored
C23_Witness == /\ lastFrame # <<>>
               /\ lastFrame[1] \in NearTransferLogs
               /\ lastFrame[1].topics[1] = "0xDDF2"
               /\ calls = <<>>
               /\ notify = "none"
               /\ pools # <<>>
               /\ pc = "streaming"

\* the entries of ps whose address has the 20-byte value of from_addr or of
\* to_addr
RelatedEntries(from_addr, to_addr, ps) == {ps[i] : i \in {j \in DOMAIN ps : ps[j].address[1] \in {from_addr[1], to_addr[1]}}}

\* C24: find_related_pool returns a registered pool whose address is from
\* or to, letter case aside, whenever the registry has one, and None
\* otherwise; on an empty registry it returns None for every pair.
C24_FindRelatedPool ==
    probe.fn = "find_related_pool" =>
        /\ RelatedEntries(probe.arg[1], probe.arg[2], probe.arg[3]) # {} => (probe.out[1] # <<>> /\ probe.out[1][1] \in RelatedEntries(probe.arg[1], probe.arg[2], probe.arg[3]))
        /\ RelatedEntries(probe.arg[1], probe.arg[2], probe.arg[3]) = {} => probe.out[1] = <<>>
        /\ probe.arg[3] = <<>> => probe.out[1] = <<>>

\* the second pool of the registry found through its upper-case address
\* given as to
C24_Witness == /\ probe.fn = "find_related_pool"
               /\ probe.arg[1] = <<Account, "c">>
               /\ probe.arg[2] = <<PoolB, "u">>
               /\ Len(probe.arg[3]) = 2
               /\ probe.out[1] # <<>>
               /\ probe.out[1][1].key = <<PoolB, "l">>

\* the positions of the records whose address has the 20-byte value of a,
\* whatever the letter case of either
SameAddress(a) == {i \in DOMAIN pools : pools[i].address[1] = a[1]}

\* the step calls the PoolTracker method fn
Calls(fn) == probe'.fn = fn

\* the records at the positions other than i are left as they are
OthersKept(i) == /\ Len(pools') = Len(pools)
                 /\ \A j \in DOMAIN pools : j # i => pools'[j] = pools[j]

\* C25: get_pool_info, mark_liquidity_added and mark_first_swap called
\* with any letter-case variant of a registered address act on the one
\* record of that address, and the registry never holds two records whose
\* addresses differ in letter case only.
C25_CaseInsensitiveIdentity ==
    [][/\ \A i, j \in DOMAIN pools' : pools'[i].address[1] = pools'[j].address[1] => i = j
       /\ \A i \in SameAddress(probe'.arg[1]) :
              /\ Calls("get_pool_info") => (probe'.out[1] = <<pools[i]>> /\ pools' = pools)
              /\ Calls("mark_liquidity_added") => (pools'[i].has_liquidity /\ pools'[i].first_mint # None /\ OthersKept(i))
              /\ Calls("mark_first_swap") => (pools'[i].first_swap # None /\ probe'.out[1] = (pools[i].first_swap = None) /\ OthersKept(i))]_vars

\* a pool registered under its checksum address has had its liquidity
\* marked and then its first swap recorded through the upper-case address
C25_Witness == /\ Len(pools) = 1
               /\ pools[1].address = <<PoolA, "c">>
               /\ pools[1].has_liquidity
               /\ probe.fn = "mark_first_swap"
               /\ probe.arg[1] = <<PoolA, "u">>
               /\ probe.out[1] = TRUE
               /\ pools[1].first_swap = probe.arg[2]

\* C26: mark_liquidity_added and mark_first_swap called with an address
\* that is not registered leave the registry as it is, and mark_first_swap
\* then returns False.
C26_UnknownPoolNoOp ==
    [][((Calls("mark_liquidity_added") \/ Calls("mark_first_swap")) /\ SameAddress(probe'.arg[1]) = {}) =>
          /\ pools' = pools
          /\ Calls("mark_first_swap") => probe'.out[1] = FALSE]_vars

\* with another pool registered, mark_first_swap has been called for an
\* address that is not, and returned False
C26_Witness == /\ probe.fn = "mark_first_swap"
               /\ probe.arg[1] = <<PoolB, "c">>
               /\ probe.out[1] = FALSE
               /\ Len(pools) = 1
               /\ pools[1].key = <<PoolA, "l">>
               /\ pools[1].first_swap = None

\* C27: assess_liquidity_quality returns the Substantial tier with its
\* advisory exactly when token_amount is at least MIN_LIQUIDITY_THRESHOLD,
\* the amount equal to the threshold included, and the Minimal tier with its
\* advisory otherwise.
C27_LiquidityTiers ==
    probe.fn = "assess_liquidity_quality" =>
        /\ probe.arg[1] >= MIN_LIQUIDITY_THRESHOLD * TokenScale => probe.out[1] = <<"green", "Substantial", "Trading viable">>
        /\ probe.arg[1] < MIN_LIQUIDITY_THRESHOLD * TokenScale => probe.out[1] = <<"yellow", "Minimal", "Trading possible but limited">>

\* the amount equal to the threshold has been assessed as Substantial
C27_Witness == /\ probe.fn = "assess_liquidity_quality"
               /\ probe.arg[1] = MIN_LIQUIDITY_THRESHOLD * TokenScale
               /\ probe.out[1][2] = "Substantial"

\* the amount one unit below the threshold has been assessed as Minimal
C27_WitnessBelow == /\ probe.fn = "assess_liquidity_quality"
                    /\ probe.arg[1] = MIN_LIQUIDITY_THRESHOLD * TokenScale - 1
                    /\ probe.out[1][2] = "Minimal"

\* C28: every address registered before a step is registered after it,
\* whatever the step is: a handled frame, a skipped frame, an error, a
\* close, a sleep, a reconnect or a stop; the registry never shrinks.
C28_PoolsNeverDeleted ==
    [][/\ \A i \in DOMAIN pools : \E j \in DOMAIN pools' : pools'[j].key = pools[i].key /\ pools'[j].address[1] = pools[i].address[1]
       /\ Len(pools') >= Len(pools)]_vars

\* two pools registered on the first connection are still registered on
\* the second one, set up after the first broke
C28_Witness == /\ Len(pools) = 2
               /\ websocket = 2
               /\ pc = "streaming"
               /\ wsOpen
               /\ ended \in {"error", "closed"}
               /\ streamErrors = 1
               /\ \E r \in DOMAIN sent : sent[r].conn = 2 /\ Len(sent[r].addresses) = 2

\* C29: the handling of a Transfer log, find_related_pool and
\* classify_transaction_type included, leaves every record of the registry
\* as it is; a step that calls is_contract_involved changes the registry
\* only through add_pool, and a step that calls assess_liquidity_quality
\* only as mark_liquidity_added does.
C29_ClassifierReadsOnly ==
    [][\A n \in DOMAIN lastFrame' :
          /\ Route(lastFrame'[n]) = "Transfer" => pools' = pools
          /\ (Called("find_related_pool")' \/ Called("classify_transaction_type")') => pools' = pools
          /\ (Called("is_contract_involved")' /\ ~Called("add_pool")') => pools' = pools
          /\ Called("assess_liquidity_quality")' => pools' = mark_liquidity_added(pools, lastFrame'[n].address, lastFrame'[n].transactionHash)]_vars

\* a Transfer sent by a registered pool has been classified against the
\* registry and notified
C29_Witness == /\ lastFrame # <<>>
               /\ Route(lastFrame[1]) = "Transfer"
               /\ Called("find_related_pool")
               /\ Called("classify_transaction_type")
               /\ tx_type \in {"POOL SETUP", "POOL ACTIVITY"}
               /\ pools # <<>>
               /\ find_related_pool(decode_transfer(lastFrame[1]).from, decode_transfer(lastFrame[1]).to, pools) # <<>>

\* the requests of _setup_subscriptions for the fixed addresses have been
\* sent on the connection that self.websocket holds
SubscribedHere == \E r \in DOMAIN sent : /\ sent[r].conn = websocket
                                          /\ sent[r].ok
                                          /\ sent[r].addresses = LowerAll(fixed_addresses)

\* the step is a connect attempt or a subscription setup that fails
SetupFailure == \/ ConnectAttempt /\ pc' # "setup"
                \/ pc = "setup" /\ pc' \notin {"setup", "streaming"}

\* C30: a frame is taken off a connection only in Streaming, after the
\* requests of _setup_subscriptions have been sent on that connection;
\* Streaming is entered only from the subscription setup, which is entered
\* only from a connect; and a failure while connecting or subscribing takes
\* no frame, runs no handler and leaves the loop disconnected, on its way
\* to the next attempt.
C30_ProtocolOrder ==
    [][/\ read' # read => (pc = "streaming" /\ websocket # 0 /\ websocket = connects /\ SubscribedHere)
       /\ (pc' = "streaming" /\ pc # "streaming") => (pc = "setup" /\ Len(sent') > Len(sent) /\ SubscribedHere')
       /\ (pc' = "setup" /\ pc # "setup") => (pc = "loop" /\ ConnectAttempt /\ websocket' = connects')
       /\ SetupFailure => /\ read' = read
                           /\ handled' = handled
                           /\ lastFrame' = <<>>
                           /\ calls' = <<>>
                           /\ pools' = pools
                           /\ ~wsOpen'
                           /\ pc' \in {"sleep", "loop"}]_vars

\* the subscription setup of the first connection failed, and a frame has
\* been handled on the second connection after its setup
C30_Witness == /\ websocket = 2
               /\ lastFrame # <<>>
               /\ read = 1
               /\ streamErrors = 0
               /\ ended = "error"
               /\ \E r \in DOMAIN sent : sent[r].conn = 1 /\ ~sent[r].ok
               /\ SubscribedHere

\* the step runs the except clause of _subscription_loop
ErrorCaught == ended' = "error" /\ (ConnectAttempt \/ pc \in {"setup", "streaming"}) /\ ~wsOpen' /\ pc' # pc

\* C31: with the stop flag set, no connect attempt starts and a frame
\* that the socket hands over is dropped without reaching _handle_event;
\* an error caught with the flag set sends the loop back to its while
\* test, not to the reconnect sleep, and from there the loop only ends.
C31_StopIsHonoured ==
    [][/\ should_stop => ~ConnectAttempt
       /\ (should_stop /\ read' # read) => (lastFrame' = <<>> /\ calls' = <<>> /\ notify' = "none" /\ pools' = pools /\ sent' = sent)
       /\ lastFrame' # <<>> => ~should_stop
       /\ (should_stop /\ ErrorCaught) => (pc' = "loop" /\ ~slept')
       /\ (should_stop /\ pc = "loop") => pc' \in {"loop", "done"}
       /\ (slept' /\ ~slept) => pc = "sleep"]_vars

\* the stop flag was set on a Streaming connection, the connection then
\* broke, and the loop ended without the reconnect sleep
C31_Witness == /\ should_stop
               /\ pc = "done"
               /\ ended = "error"
               /\ ~slept
               /\ streamErrors = 1
               /\ connects = 1

\* the requests delivered on connection c whose address list holds a
Covering(c, a) == {i \in DOMAIN sent : /\ sent[i].conn = c
                                       /\ sent[i].ok
                                       /\ \E n \in DOMAIN sent[i].addresses : sent[i].addresses[n] = a}

\* C32: on one connection no pool address is carried by more than one
\* delivered subscription request, whatever creation logs arrive.
C32_OneSubscriptionPerPool ==
    \A c \in 1..MaxConnects : \A i \in DOMAIN pools : Cardinality(Covering(c, pools[i].key)) <= 1

\* the position of op among the calls of the last step, 0 when absent
CallIndex(op) == IF Called(op) THEN CHOOSE i \in DOMAIN calls : calls[i] = op ELSE 0

\* the subscription requests whose send failed and that name one pool only
FailedPoolRequests == {i \in DOMAIN sent : /\ ~sent[i].ok
                                            /\ Len(sent[i].addresses) = 1}

\* C33: a creation handler calls add_pool before the send of the pool's
\* subscription request and before send_pool_created_notification; when
\* the send fails the pool is in the registry all the same, it stays there,
\* and a later connection that reaches Streaming has a delivered request
\* carrying it.
C33_RegisteredBeforeSubscribed ==
    /\ (Called("send") /\ lastFrame # <<>>) => (0 < CallIndex("add_pool") /\ CallIndex("add_pool") < CallIndex("send") /\ HasKey(pools, CreatedKey(lastFrame[1])))
    /\ Called("send_pool_created_notification") => (0 < CallIndex("add_pool") /\ CallIndex("add_pool") < CallIndex("send_pool_created_notification") /\ CallIndex("send") < CallIndex("send_pool_created_notification"))
    /\ \A i \in FailedPoolRequests : /\ HasKey(pools, sent[i].addresses[1])
                                      /\ (pc = "streaming" /\ websocket > sent[i].conn) => Covering(websocket, sent[i].addresses[1]) # {}

\* the send of a new pool's request failed on the first connection and the
\* second connection is streaming with a delivered request that carries it
C33_Witness == /\ pc = "streaming"
               /\ websocket = 2
               /\ \E i \in FailedPoolRequests : /\ sent[i].conn = 1
                                                 /\ sent[i].addresses[1] = pools[1].key
                                                 /\ Covering(2, sent[i].addresses[1]) # {}

\* a Mint or Swap log of a registered pool that decodes
PoolAmountLog(log) == Route(log) \in {"Mint", "MintV3", "Swap", "SwapV3"} /\ ReachesThreshold(log)

\* C34: a Mint or Swap log of a registered pool whose monitored-token
\* amount is below MIN_TOKENS_THRESHOLD leaves every entry of the registry
\* as it was and calls neither mark_liquidity_added nor mark_first_swap; a
\* swap at or above the threshold on a pool whose first_swap is still unset
\* is reported with is_first_swap = True, and first_swap is set only for a
\* pool that has had such a report.
C34_BelowThresholdKeepsRegistry ==
    [][/\ \A n \in DOMAIN lastFrame' :
              PoolAmountLog(lastFrame'[n]) =>
                  /\ MonitoredAmount(lastFrame'[n]) < MIN_TOKENS_THRESHOLD * TokenScale =>
                         (pools' = pools /\ calls' = <<>> /\ is_first' = None /\ firstSwapTrue' = firstSwapTrue)
                  /\ (/\ Route(lastFrame'[n]) \in {"Swap", "SwapV3"}
                      /\ MonitoredAmount(lastFrame'[n]) >= MIN_TOKENS_THRESHOLD * TokenScale
                      /\ pools[KeyIndex(pools, Lower(lastFrame'[n].address))].first_swap = None) =>
                         (/\ is_first' = "True"
                          /\ pools'[KeyIndex(pools, Lower(lastFrame'[n].address))].first_swap = lastFrame'[n].transactionHash)
       /\ \A i \in DOMAIN pools : pools[i].first_swap # None => firstSwapTrue[pools[i].key] >= 1]_vars

\* a Swap just below the threshold has been handled on a registered pool
\* whose first_swap is still unset
C34_Witness == /\ lastFrame # <<>>
               /\ Route(lastFrame[1]) = "Swap"
               /\ ReachesThreshold(lastFrame[1])
               /\ MonitoredAmount(lastFrame[1]) = MIN_TOKENS_THRESHOLD * TokenScale - 1
               /\ pools[KeyIndex(pools, Lower(lastFrame[1].address))].first_swap = None
               /\ ~pools[KeyIndex(pools, Lower(lastFrame[1].address))].has_liquidity
               /\ calls = <<>>

\* C35: MIN_TOKENS_THRESHOLD is not below MIN_LIQUIDITY_THRESHOLD, and
\* every send_liquidity_added_notification of the mint handlers carries
\* status_text "Substantial": "Minimal" is never passed, since a mint that
\* gets past the token threshold meets the liquidity threshold too.
C35_AlwaysSubstantial ==
    /\ MIN_TOKENS_THRESHOLD >= MIN_LIQUIDITY_THRESHOLD
    /\ status_text # "Minimal"
    /\ Called("send_liquidity_added_notification") <=> status_text = "Substantial"
    /\ \A log \in Handled : (Route(log) \in {"Mint", "MintV3"} /\ ReachesThreshold(log)) =>
           IF MonitoredAmount(log) >= MIN_TOKENS_THRESHOLD * TokenScale
           THEN status_text = "Substantial"
           ELSE status_text = None

\* a mint whose monitored-token amount is at the token threshold and whose
\* other amount is below the liquidity threshold has been notified
C35_Witness == /\ lastFrame # <<>>
               /\ Route(lastFrame[1]) = "Mint"
               /\ ReachesThreshold(lastFrame[1])
               /\ lastFrame[1].data[1] < MIN_LIQUIDITY_THRESHOLD * TokenScale
               /\ MonitoredAmount(lastFrame[1]) = MIN_TOKENS_THRESHOLD * TokenScale
               /\ Called("send_liquidity_added_notification")
               /\ status_text = "Substantial"

\* the send_* calls among the calls of the last step
Sends == {i \in DOMAIN calls : calls[i] \in SendOps}

\* C36: a Transfer log of the monitored token that decodes, with an amount
\* at or above the threshold, makes exactly one send_* call: the token-burn
\* notification when to is the zero or the burn address; else the swap
\* notification with is_first_swap = False when to is a DEX router; else
\* the transfer notification with the category the classifier gives for
\* from, to and the related pool.
C36_TransferNotification ==
    \A log \in Handled :
        (Route(log) = "Transfer" /\ ReachesThreshold(log) /\ MonitoredAmount(log) >= MIN_TOKENS_THRESHOLD * TokenScale) =>
            /\ Cardinality(Sends) = 1
            /\ IF decode_transfer(log).to[1] \in {ZERO_ADDRESS[1], BURN_ADDRESS[1]}
               THEN calls = <<"send_token_burn_notification">> /\ tx_type = None /\ is_first = None
               ELSE IF decode_transfer(log).to[1] \in RouterValues
               THEN calls = <<"send_swap_notification">> /\ tx_type = None /\ is_first = "False"
               ELSE /\ calls = <<"find_related_pool", "classify_transaction_type", "send_transfer_notification">>
                    /\ is_first = None
                    /\ tx_type = FirstMatch(decode_transfer(log).from[1], decode_transfer(log).to[1], find_related_pool(decode_transfer(log).from, decode_transfer(log).to, pools))

\* a Transfer at the threshold from the zero address to a DEX router has
\* been notified as a swap that is not a first swap
C36_Witness == /\ lastFrame # <<>>
               /\ Route(lastFrame[1]) = "Transfer"
               /\ ReachesThreshold(lastFrame[1])
               /\ decode_transfer(lastFrame[1]).from[1] = ZERO_ADDRESS[1]
               /\ decode_transfer(lastFrame[1]).to[1] \in RouterValues
               /\ calls = <<"send_swap_notification">>
               /\ is_first = "False"

\* a Transfer that the monitored token did not emit, or a pool event that
\* no registered pool emitted
IrrelevantEmitter(log) == \/ Route(log) = "Transfer" /\ Lower(log.address) # Lower(ERC20_CONTRACT_ADDRESS)
                          \/ Route(log) \in {"Mint", "MintV3", "Swap", "SwapV3", "Burn", "Sync"} /\ \A i \in DOMAIN pools : pools[i].key # Lower(log.address)

\* C37: a Transfer log not emitted by the monitored token, and a Mint,
\* Swap, Burn or Sync log not emitted by a registered pool, change no
\* registry entry, send no subscription request and make no call at all,
\* so no notification either.
C37_IrrelevantEmittersIgnored ==
    [][\A n \in DOMAIN lastFrame' : IrrelevantEmitter(lastFrame'[n]) => (Ignored /\ is_first' = None /\ tx_type' = None /\ status_text' = None)]_vars

\* with a pool registered, a Transfer at the threshold emitted by another
\* token has been handled and nothing was called
C37_Witness == /\ lastFrame # <<>>
               /\ Route(lastFrame[1]) = "Transfer"
               /\ lastFrame[1].address[1] = OtherToken
               /\ decode_transfer(lastFrame[1]).ok
               /\ decode_transfer(lastFrame[1]).amount >= MIN_TOKENS_THRESHOLD * TokenScale
               /\ pools # <<>>
               /\ calls = <<>>
               /\ notify = "none"

\* C38: the step of a BurnV2 or SyncV2 log leaves every registry entry as
\* it was, has_liquidity, first_mint and first_swap of a pool marked as
\* having liquidity included, and calls no PoolTracker write.
C38_BurnSyncKeepRegistry ==
    [][\A n \in DOMAIN lastFrame' :
          Route(lastFrame'[n]) \in {"Burn", "Sync"} =>
              /\ pools' = pools
              /\ firstSwapTrue' = firstSwapTrue
              /\ \A i \in DOMAIN calls' : calls'[i] \notin {"add_pool", "mark_liquidity_added", "mark_first_swap"}]_vars

\* a Burn at the threshold has been notified on a pool that has liquidity
\* and a first mint recorded
C38_Witness == /\ lastFrame # <<>>
               /\ Route(lastFrame[1]) = "Burn"
               /\ Called("send_burn_notification")
               /\ HasKey(pools, Lower(lastFrame[1].address))
               /\ pools[KeyIndex(pools, Lower(lastFrame[1].address))].has_liquidity
               /\ pools[KeyIndex(pools, Lower(lastFrame[1].address))].first_mint # None

\* attempt i of the call under way received HTTP 200
Got200(i) == telegram.posts[i].kind = "response" /\ telegram.posts[i].status = 200

\* attempt i received HTTP 429
Got429(i) == telegram.posts[i].kind = "response" /\ telegram.posts[i].status = 429

\* send_message makes at most TELEGRAM_MAX_RETRIES POSTs, ends with True or
\* False, True exactly when an attempt received 200, which then is the last
SendMessageReturns ==
    /\ Len(telegram.posts) <= TELEGRAM_MAX_RETRIES
    /\ telegram.attempt <= TELEGRAM_MAX_RETRIES
    /\ telegram.returned \in {None, "True", "False"}
    /\ telegram.pc = "done" <=> telegram.returned # None
    /\ telegram.returned = "True" <=> \E n \in DOMAIN telegram.posts : Got200(n)
    /\ \A n \in DOMAIN telegram.posts : Got200(n) => n = Len(telegram.posts)
    /\ telegram.returned = "False" => Len(telegram.posts) = TELEGRAM_MAX_RETRIES

\* the sleep that followed attempt n was the one of the 429 branch, for the
\* seconds the header gives
WaitedRetryAfter(n) == /\ telegram.sleeps[n].call = "retry_after"
                       /\ int(telegram.posts[n].retry_after) # <<>> => telegram.sleeps[n].seconds = int(telegram.posts[n].retry_after)[1]

\* a 429 attempt whose iteration is over counted as one attempt and was
\* followed by the Retry-After sleep; h is the set of header values looked at
RateLimitWaits(h) == \A n \in DOMAIN telegram.sleeps : (Got429(n) /\ telegram.posts[n].retry_after \in h) => WaitedRetryAfter(n)

\* the same for the headers that int() accepts, the missing header included
RateLimitWaitsSeconds == RateLimitWaits({x \in {None} \cup RetryAfterHeaders : int(x) # <<>>})

\* every call of send_message returns
SendMessageTerminates == <>(telegram.pc = "done")

\* C39: send_message makes at most TELEGRAM_MAX_RETRIES POSTs, does not
\* raise, returns True exactly when an attempt received HTTP 200 (the last
\* attempt made) and False otherwise; every attempt answered with 429 is
\* followed by the Retry-After sleep and not by the fixed retry delay.
C39_SendMessage == SendMessageReturns /\ RateLimitWaits({None} \cup RetryAfterHeaders)

=============================================================================
